---- MODULE Spec2Model ----
(***************************************************************************)
(* Trademark availability service (marca-api): the text normalisation, the *)
(* match selection, the status classification and the availability         *)
(* decision of the handler variants, and the handlers around them.         *)
(*                                                                         *)
(* A string of the program is a sequence of characters; a character is a   *)
(* one-character string, and a character outside ASCII is written by its   *)
(* code point ("U+00FA" is u with acute, "U+0301" the combining acute).    *)
(* A record of the program is a TLA+ record whose DOMAIN holds the fields  *)
(* that are present: an absent field reads as undefined.                   *)
(***************************************************************************)
EXTENDS Integers, Sequences, FiniteSets, TLC

\* ------------------------------------------------------------------ bounds

\* Longest record list handed to the decision.
MaxProcessos == 2

\* Longest string of the exhaustive text universe.
MaxLen == 2

\* ------------------------------------------------------- characters, strings

UpperLetters ==
  <<"A","B","C","D","E","F","G","H","I","J","K","L","M",
    "N","O","P","Q","R","S","T","U","V","W","X","Y","Z">>

LowerLetters ==
  <<"a","b","c","d","e","f","g","h","i","j","k","l","m",
    "n","o","p","q","r","s","t","u","v","w","x","y","z">>

Digits == {"0","1","2","3","4","5","6","7","8","9"}

\* The characters of the class [a-z0-9].
AlnumLower == {LowerLetters[i] : i \in 1..Len(LowerLetters)} \cup Digits

\* The characters of the range U+0300..U+036F that the strings here use:
\* combining acute, tilde, circumflex, cedilla.
CombiningMarks == {"U+0301", "U+0303", "U+0302", "U+0327"}

\* What String.prototype.trim removes.
WhiteSpace == {" ", "U+00A0"}

\* Canonical decomposition (NFD) of one character.
Decompose(c) ==
  CASE c = "U+00E1" -> <<"a", "U+0301">>
    [] c = "U+00C1" -> <<"A", "U+0301">>
    [] c = "U+00E3" -> <<"a", "U+0303">>
    [] c = "U+00E7" -> <<"c", "U+0327">>
    [] c = "U+00C7" -> <<"C", "U+0327">>
    [] c = "U+00E9" -> <<"e", "U+0301">>
    [] c = "U+00EA" -> <<"e", "U+0302">>
    [] c = "U+00FA" -> <<"u", "U+0301">>
    [] c = "U+00DA" -> <<"U", "U+0301">>
    [] OTHER -> <<c>>

\* s.normalize('NFD')
RECURSIVE normalizeNFD(_)
normalizeNFD(s) ==
  IF s = <<>> THEN <<>> ELSE Decompose(Head(s)) \o normalizeNFD(Tail(s))

IsNotCombining(c) == c \notin CombiningMarks

\* .replace(/[U+0300-U+036F]/g, '')
removeCombining(s) == SelectSeq(s, IsNotCombining)

lowerChar(c) ==
  IF \E i \in 1..Len(UpperLetters) : UpperLetters[i] = c
  THEN LowerLetters[CHOOSE i \in 1..Len(UpperLetters) : UpperLetters[i] = c]
  ELSE c

\* Mutant: the letters keep their case.
toLowerCase_nada(s) == s

\* .toLowerCase()
toLowerCase(s) == [i \in 1..Len(s) |-> lowerChar(s[i])]

RECURSIVE trimStart(_)
trimStart(s) ==
  IF s # <<>> /\ Head(s) \in WhiteSpace THEN trimStart(Tail(s)) ELSE s

RECURSIVE trimEnd(_)
trimEnd(s) ==
  IF s # <<>> /\ s[Len(s)] \in WhiteSpace
  THEN trimEnd(SubSeq(s, 1, Len(s) - 1))
  ELSE s

\* .trim()
trim(s) == trimEnd(trimStart(s))

\* A.includes(B)
includes(A, B) ==
  \E i \in 0..(Len(A) - Len(B)) : SubSeq(A, i + 1, i + Len(B)) = B

\* Mutant: the string is lower-cased and trimmed, its diacritics are kept.
stripDiacriticsLower_comAcentos(s) == trim(toLowerCase(s))

stripDiacriticsLower(s) == trim(toLowerCase(removeCombining(normalizeNFD(s))))

IsAlnumLower(c) == c \in AlnumLower

\* Mutant: the characters outside a-z and 0-9 stay in the string.
canonical_semFiltro(s) == stripDiacriticsLower(s)

\* .replace(/[^a-z0-9]+/g, '')
canonical(s) == SelectSeq(stripDiacriticsLower(s), IsAlnumLower)

\* Mutant: equality of the canonical forms only, no containment.
equalsLoose_soIgual(a, b) == canonical(a) = canonical(b)

equalsLoose(a, b) ==
  LET A == canonical(a)
      B == canonical(b)
  IN  A = B \/ includes(A, B) \/ includes(B, A)

\* Mutant: the exact-match variants compare canonical forms.
normalize_canonico(s) == canonical(s)

\* normalize of the exact-match variants: diacritics and case removed, outer
\* white space trimmed, everything else kept.
normalize(s) == trim(toLowerCase(removeCombining(normalizeNFD(s))))

TERMINAIS_STEMS ==
  { <<"i","n","d","e","f","e","r","i","d">>,
    <<"n","e","g","a","d">>,
    <<"a","r","q","u","i","v">>,
    <<"e","x","t","i","n","t">>,
    <<"c","a","d","u","c","a","d">>,
    <<"c","a","n","c","e","l","a","d">>,
    <<"n","u","l","i","d","a","d","e"," ","p","r","o","c","e","d","e","n","t">>,
    <<"n","u","l","o">>,
    <<"r","e","n","u","n","c","i">> }

situacaoPermite(situacao) ==
  \E stem \in TERMINAIS_STEMS : includes(stripDiacriticsLower(situacao), stem)

\* situacaoPermite of the exact-match broker variant.
situacaoPermite_exata(situacao) ==
  LET s == normalize(situacao)
  IN  \E stem \in TERMINAIS_STEMS : includes(s, stem)

\* TERMINAIS_STEMS of the WIPO-first variant: the nine stems and six English ones.
TERMINAIS_STEMS_wipo ==
  TERMINAIS_STEMS \cup
  { <<"e","x","p","i","r","e","d">>,
    <<"c","a","n","c","e","l","l","e","d">>,
    <<"c","a","n","c","e","l","e","d">>,
    <<"w","i","t","h","d","r","a","w","n">>,
    <<"a","b","a","n","d","o","n","e","d">>,
    <<"d","e","a","d">> }

situacaoPermite_wipo(situacao) ==
  LET s == stripDiacriticsLower(situacao)
  IN  \E stem \in TERMINAIS_STEMS_wipo : includes(s, stem)

\* ------------------------------------------------------------ the decision

\* p[f] || '' : an absent or empty field reads as the empty string.
campo(p, f) == IF f \in DOMAIN p THEN p[f] ELSE <<>>

\* p.situacao || p.situacao_processual || p.status || ''
situacaoDe(p) ==
  IF campo(p, "situacao") # <<>> THEN p.situacao
  ELSE IF campo(p, "situacao_processual") # <<>> THEN p.situacao_processual
  ELSE campo(p, "status")

\* p.numero ?? p.processo ?? ''
numeroDe(p) ==
  IF "numero" \in DOMAIN p THEN p.numero ELSE campo(p, "processo")

\* The reasons (motivo) of the scraping variant; diacritics are dropped here.
MOTIVO_NENHUM == "Nenhum registro encontrado (busca exata)"

MOTIVO_SEM_EXATO == "Nenhum registro exato encontrado"

MOTIVO_TERMINAIS == "Todas as situacoes sao terminais (permite registro)"

MOTIVO_NAO_TERMINAIS ==
  "Ha situacao(oes) nao-terminais (ex.: registro em vigor, Alto Renome, exame, publicacao, etc.)"

\* The reasons of the paginated broker variant that differ.
MOTIVO_TERMINAIS_exata == "Todas as situacoes sao terminais"

MOTIVO_NAO_TERMINAIS_exata ==
  "Ha situacao(oes) nao-terminais (registro ativo, Alto Renome, exame, publicacao, etc.)"

\* The reasons of the single-page broker variant that differ.
MOTIVO_TERMINAIS_simples ==
  "Todos os registros encontrados estao em situacao que permite novo registro"

MOTIVO_NAO_TERMINAIS_simples == "Marca ja registrada ou em processo ativo"

\* A value of the program that may or may not be an array: [tipo, itens].
IsArray(v) == v.tipo = "array"

\* !v : undefined and null are falsy, an array or another object is not.
IsFalsy(v) == v.tipo \in {"undefined", "null"}

EhRelevanteLoose(p, marcaDigitada) == equalsLoose(campo(p, "marca"), marcaDigitada)

\* Mutant: no filter, every record counts as relevant.
exatos_semFiltro(marcaDigitada, itens) == itens

\* processos.filter(p => equalsLoose(p.marca || '', marcaDigitada))
exatos(marcaDigitada, itens) ==
  LET Test(p) == EhRelevanteLoose(p, marcaDigitada)
  IN  SelectSeq(itens, Test)

\* Mutant: some() in the place of every().
todasTerminais_alguma(ex) ==
  \E i \in 1..Len(ex) : situacaoPermite(campo(ex[i], "situacao"))

\* exatos.every(p => situacaoPermite(p.situacao || ''))
todasTerminais(ex) == \A i \in 1..Len(ex) : situacaoPermite(campo(ex[i], "situacao"))

\* Mutant: the test exatos.length === 0 is missing.
decidirDisponibilidade_semTesteDeVazio(marcaDigitada, processos) ==
  IF ~IsArray(processos) \/ Len(processos.itens) = 0
  THEN [disponivel |-> TRUE, motivo |-> MOTIVO_NENHUM]
  ELSE IF todasTerminais(exatos(marcaDigitada, processos.itens))
  THEN [disponivel |-> TRUE, motivo |-> MOTIVO_TERMINAIS]
  ELSE [disponivel |-> FALSE, motivo |-> MOTIVO_NAO_TERMINAIS]

\* decidirDisponibilidade of the scraping variant (loose containment).
decidirDisponibilidade(marcaDigitada, processos) ==
  IF ~IsArray(processos) \/ Len(processos.itens) = 0
  THEN [disponivel |-> TRUE, motivo |-> MOTIVO_NENHUM]
  ELSE LET ex == exatos(marcaDigitada, processos.itens)
       IN  IF Len(ex) = 0
           THEN [disponivel |-> TRUE, motivo |-> MOTIVO_SEM_EXATO]
           ELSE IF todasTerminais(ex)
           THEN [disponivel |-> TRUE, motivo |-> MOTIVO_TERMINAIS]
           ELSE [disponivel |-> FALSE, motivo |-> MOTIVO_NAO_TERMINAIS]

EhRelevanteExata(p, marcaDigitada) ==
  normalize(campo(p, "marca")) = normalize(marcaDigitada)

\* processos.filter(p => normalize(p.marca || '') === alvo)
exatos_exata(marcaDigitada, itens) ==
  LET Test(p) == EhRelevanteExata(p, marcaDigitada)
  IN  SelectSeq(itens, Test)

\* Mutant: only the first matched record is looked at.
todasTerminais_exata_primeiro(ex) ==
  ex = <<>> \/ situacaoPermite_exata(situacaoDe(ex[1]))

todasTerminais_exata(ex) ==
  \A i \in 1..Len(ex) : situacaoPermite_exata(situacaoDe(ex[i]))

\* Mutant: the listed status is p.situacao alone.
processosOut_soSituacao(ex) ==
  [i \in 1..Len(ex) |->
     [numero   |-> numeroDe(ex[i]),
      situacao |-> campo(ex[i], "situacao"),
      titular  |-> campo(ex[i], "titular"),
      classe   |-> IF campo(ex[i], "classe") # <<>> THEN ex[i].classe
                   ELSE campo(ex[i], "classe_nice")]]

\* exatos.map(p => ({ numero, situacao, titular, classe }))
processosOut(ex) ==
  [i \in 1..Len(ex) |->
     [numero   |-> numeroDe(ex[i]),
      situacao |-> situacaoDe(ex[i]),
      titular  |-> campo(ex[i], "titular"),
      classe   |-> IF campo(ex[i], "classe") # <<>> THEN ex[i].classe
                   ELSE campo(ex[i], "classe_nice")]]

\* decidirDisponibilidade of the paginated broker variant (exact match).
decidirDisponibilidade_exata(marcaDigitada, processos) ==
  IF ~IsArray(processos) \/ Len(processos.itens) = 0
  THEN [disponivel |-> TRUE, motivo |-> MOTIVO_NENHUM, processos |-> <<>>]
  ELSE LET ex == exatos_exata(marcaDigitada, processos.itens)
       IN  IF Len(ex) = 0
           THEN [disponivel |-> TRUE, motivo |-> MOTIVO_SEM_EXATO, processos |-> <<>>]
           ELSE IF todasTerminais_exata(ex)
           THEN [disponivel |-> TRUE, motivo |-> MOTIVO_TERMINAIS_exata,
                 processos |-> processosOut(ex)]
           ELSE [disponivel |-> FALSE, motivo |-> MOTIVO_NAO_TERMINAIS_exata,
                 processos |-> processosOut(ex)]

\* matchesExatos.map(p => ({ numero: p.numero, situacao: p.situacao, ... })):
\* a field the record lacks stays undefined, that is, absent.
projecao_simples(p) ==
  [f \in DOMAIN p \cap {"numero", "situacao", "titular", "classe"} |-> p[f]]

\* decidirDisponibilidade of the single-page broker variant (exact match).  Its
\* guard is !processos: a value that is neither falsy nor an array reaches
\* processos.filter, which is not a function, and the call throws.
decidirDisponibilidade_simples(marca, processos) ==
  IF IsFalsy(processos) \/ (IsArray(processos) /\ Len(processos.itens) = 0)
  THEN [disponivel |-> TRUE, motivo |-> MOTIVO_NENHUM, processos |-> <<>>]
  ELSE IF ~IsArray(processos)
  THEN [lancou |-> "TypeError"]
  ELSE LET ex == exatos_exata(marca, processos.itens)
           out == [i \in 1..Len(ex) |-> projecao_simples(ex[i])]
       IN  IF Len(ex) = 0
           THEN [disponivel |-> TRUE, motivo |-> MOTIVO_SEM_EXATO, processos |-> <<>>]
           ELSE IF \A i \in 1..Len(ex) : situacaoPermite_exata(campo(ex[i], "situacao"))
           THEN [disponivel |-> TRUE, motivo |-> MOTIVO_TERMINAIS_simples,
                 processos |-> out]
           ELSE [disponivel |-> FALSE, motivo |-> MOTIVO_NAO_TERMINAIS_simples,
                 processos |-> out]

\* The reason of the GET broker variant that differs.
MOTIVO_NAO_TERMINAIS_get == "Marca com situacao(oes) nao-terminal(is)"

\* exatos.map(p => ({ numero: p.numero || p.processo || '', ... })) of the GET
\* broker variant.
processosOut_get(ex) ==
  [i \in 1..Len(ex) |->
     [numero   |-> IF campo(ex[i], "numero") # <<>> THEN ex[i].numero
                   ELSE campo(ex[i], "processo"),
      situacao |-> situacaoDe(ex[i]),
      titular  |-> campo(ex[i], "titular"),
      classe   |-> IF campo(ex[i], "classe") # <<>> THEN ex[i].classe
                   ELSE campo(ex[i], "classe_nice")]]

\* decidirDisponibilidade of the GET broker variant (exact match).
decidirDisponibilidade_get(marca, procs) ==
  IF ~IsArray(procs) \/ Len(procs.itens) = 0
  THEN [disponivel |-> TRUE, motivo |-> MOTIVO_NENHUM, processos |-> <<>>]
  ELSE LET ex == exatos_exata(marca, procs.itens)
       IN  IF Len(ex) = 0
           THEN [disponivel |-> TRUE, motivo |-> MOTIVO_SEM_EXATO, processos |-> <<>>]
           ELSE IF todasTerminais_exata(ex)
           THEN [disponivel |-> TRUE, motivo |-> MOTIVO_TERMINAIS_exata,
                 processos |-> processosOut_get(ex)]
           ELSE [disponivel |-> FALSE, motivo |-> MOTIVO_NAO_TERMINAIS_get,
                 processos |-> processosOut_get(ex)]

\* ------------------------------------------------- inputs of the decision

\* Queries as the handlers pass them on: trimmed and not empty.
Marcas ==
  { <<"S","o","l">>,
    <<"A","C","M","E">>,
    <<"T","U+00FA","n","e","l"," ","C","r","e","w">>,
    <<"-","-","-">> }

\* Names of records; a record may also carry no name at all.
NomesDeRegistro ==
  { <<"G","i","r","a","s","s","o","l">>,
    <<"A","C","M","E"," ","S","O","L","U","T","I","O","N","S">>,
    <<"T","U","N","E","L","-","C","R","E","W">>,
    <<"T","U+00DA","N","E","L"," ","C","R","E","W">> }

\* Status strings of records; a record may also carry none.
SituacoesDeRegistro ==
  { <<"R","e","g","i","s","t","r","o"," ","d","e"," ","m","a","r","c","a"," ","e","m"," ","v","i","g","o","r">>,
    <<"P","e","d","i","d","o"," ","d","e","f","i","n","i","t","i","v","a","m","e","n","t","e"," ","a","r","q","u","i","v","a","d","o">> }

\* Rows as the parsers and the broker deliver them.
Registros ==
  [marca : NomesDeRegistro, situacao : SituacoesDeRegistro]
    \cup {[situacao |-> <<"R","e","g","i","s","t","r","o"," ","d","e"," ","m","a","r","c","a"," ","e","m"," ","v","i","g","o","r">>],
          [marca |-> <<"T","U+00DA","N","E","L"," ","C","R","E","W">>]}
    \cup {[marca |-> <<"T","U+00DA","N","E","L"," ","C","R","E","W">>, status |-> <<"A","l","t","o"," ","R","e","n","o","m","e">>],
          [marca |-> <<"T","U+00DA","N","E","L"," ","C","R","E","W">>, situacao_processual |-> <<"A","r","q","u","i","v","a","d","o">>],
          [marca |-> <<"T","U+00DA","N","E","L"," ","C","R","E","W">>, status |-> <<"A","r","q","u","i","v","a","d","o">>, processo |-> <<"7">>,
           titular |-> <<"T">>, classe_nice |-> <<"3","5">>]}

Listas == UNION {[1..n -> Registros] : n \in 0..MaxProcessos}

\* What a caller may hand to the decision as "processos".
Entradas ==
  {[tipo |-> "array", itens |-> l] : l \in Listas}
    \cup {[tipo |-> "undefined"], [tipo |-> "null"], [tipo |-> "object"]}

\* ----------------------------------------------- inputs of the text functions

Alfabeto == {"a", "b", "U+00C1", "-"}

\* Every string over Alfabeto of at most MaxLen characters.
CadeiasCurtas == UNION {[1..n -> Alfabeto] : n \in 0..MaxLen}

\* Strings with white space, an upper-case letter, a digit, a bare combining
\* mark, and the names of the examples.
CadeiasExtras ==
  { <<" ","a">>,
    <<"a"," ">>,
    <<"a"," ","b">>,
    <<"A">>,
    <<"a","1">>,
    <<"a", "U+0301">>,
    <<"S","o","l">>,
    <<"G","i","r","a","s","s","o","l">>,
    <<"A","C","M","E">>,
    <<"A","C","M","E"," ","S","O","L","U","T","I","O","N","S">> }

Cadeias == CadeiasCurtas \cup CadeiasExtras

Prefixos ==
  { <<>>,
    <<"P","e","d","i","d","o"," ">>,
    <<" ","R","e","g","i","s","t","r","o"," ","d","e"," ","m","a","r","c","a"," ">> }

Nucleos ==
  { <<>>,
    <<"i","n","d","e","f","e","r","i","d">>, <<"I","N","D","E","F","E","R","I","D">>, <<"i","n","d","e","f","e","r","i">>,
    <<"n","e","g","a","d">>, <<"N","e","g","a","d">>, <<"n","e","g","a">>,
    <<"a","r","q","u","i","v">>, <<"A","R","Q","U","I","V">>, <<"a","r","q","i","v">>,
    <<"e","x","t","i","n","t">>, <<"E","x","t","i","n","t">>, <<"e","x","t","i","n","c">>,
    <<"c","a","d","u","c","a","d">>, <<"c","a","d","u","c">>,
    <<"c","a","n","c","e","l","a","d">>, <<"c","a","n","c","e","l">>,
    <<"n","u","l","i","d","a","d","e"," ","p","r","o","c","e","d","e","n","t">>, <<"N","u","l","i","d","a","d","e"," "," ","p","r","o","c","e","d","e","n","t">>, <<"n","u","l","i","d","a","d","e"," ","i","m","p","r","o","c","e","d","e","n","t">>,
    <<"n","u","l","o">>, <<"n","u","l","a">>,
    <<"r","e","n","u","n","c","i">>, <<"R","e","n","U+00FA","n","c","i">>, <<"R","E","N","U+00DA","N","C","I">>, <<"r","e","n","u","n","c">>,
    <<"e","m"," ","v","i","g","o","r">>, <<"A","l","t","o"," ","R","e","n","o","m","e">>, <<"e","m"," ","e","x","a","m","e">>,
    <<"e","x","p","i","r","e","d">>, <<"c","a","n","c","e","l","l","e","d">>, <<"c","a","n","c","e","l","e","d">>, <<"w","i","t","h","d","r","a","w","n">>, <<"a","b","a","n","d","o","n","e","d">>,
    <<"d","e","a","d","l","i","n","e">> }

Sufixos ==
  { <<>>,
    <<"a">>,
    <<"o"," ","d","e","f","i","n","i","t","i","v","a","m","e","n","t","e"," ">> }

\* Status strings of the register, as the sources and their tests quote them.
SituacoesCitadas ==
  { <<"R","e","g","i","s","t","r","o"," ","d","e"," ","m","a","r","c","a"," ","e","m"," ","v","i","g","o","r">>,
    <<"A","l","t","o"," ","R","e","n","o","m","e">>,
    <<"P","e","d","i","d","o"," ","d","e","f","i","n","i","t","i","v","a","m","e","n","t","e"," ","a","r","q","u","i","v","a","d","o">>,
    <<"A","r","q","u","i","v","a","d","o">>,
    <<"R","e","g","i","s","t","r","o"," ","d","e"," ","m","a","r","c","a"," ","e","x","t","i","n","t","o">> }

\* Status strings: a stem or a near miss between a prefix and a suffix.
Situacoes ==
  {p \o n \o s : p \in Prefixos, n \in Nucleos, s \in Sufixos} \cup SituacoesCitadas

\* The spellings of one name that the specification quotes.
Grafias == { <<"T","U+00FA","n","e","l"," ","C","r","e","w">>, <<"T","U","N","E","L"," ","C","R","E","W">>, <<"t","u","n","e","l","-","c","r","e","w">> }

\* Ways to respell a string: upper case, a character outside a-z and 0-9
\* put in, a combining acute put in, a letter "a" replaced by the precomposed
\* a with acute.
Operacoes == {"maiusculas", "hifen", "espaco", "agudo", "precomposto"}

EntradasTexto ==
  [tipo : {"nomes"}, a : Cadeias, b : Cadeias]
    \cup [tipo : {"situacao"}, s : Situacoes]
    \cup [tipo : {"grafia"}, s : Cadeias \cup Grafias, op : Operacoes, k : 0..MaxLen]

\* ------------------------------------------------------------------- state

VARIABLES
  marcaDigitada,   \* the decision: the query
  processos,       \* the decision: the value passed as the record list
  variante,        \* the decision: which variant ran ("nenhuma" before)
  decisao,         \* the decision: what it returned
  entrada,         \* text functions: the strings under test
  saida,           \* text functions: what the functions returned
  PLAYWRIGHT_ENABLED, \* scraping handler: the feature flag of the deployment
  CACHE,           \* scraping handler: the micro-cache, key -> [value, expiresAt]
  agora,           \* scraping handler: Date.now(), in minutes
  pedido,          \* scraping handler: the request being served, or the last one
  pc,              \* scraping handler: where the request in flight waits
  resposta,        \* scraping handler: the last response sent
  env,             \* broker handlers: the deployment (variant, token)
  pedidoB,         \* broker handlers: the request being served, or the last one
  pcB,             \* broker handlers: where the request in flight waits
  paginas,         \* broker handlers: the page bodies received so far
  respostaB,       \* broker handlers: the last response sent
  termo,           \* broker handlers: the query sent upstream
  decidido,        \* broker handlers: the arguments of the decision
  invocacoes,      \* concurrent invocations of the handler, by slot
  maxAttempts,     \* httpGetWithRetry: the argument
  attempt,         \* httpGetWithRetry: the loop counter
  pcR,             \* httpGetWithRetry: where the call stands
  enviados,        \* httpGetWithRetry: requests sent so far
  esperas,         \* httpGetWithRetry: backoff waits started so far
  ultimo,          \* httpGetWithRetry: the outcome of the last request
  lastError,       \* httpGetWithRetry: the local lastError
  retorno,         \* httpGetWithRetry: what the call returned or threw
  resultadoW,      \* WIPO-first handler: the local resultado
  consultas        \* WIPO-first handler: the sources queried, with outcomes

varsDecisao == <<marcaDigitada, processos, variante, decisao>>

varsTexto == <<entrada, saida>>

varsHandler == <<PLAYWRIGHT_ENABLED, CACHE, agora, pedido, pc, resposta>>

varsBroker == <<env, pedidoB, pcB, paginas, respostaB, termo, decidido>>

varsConcorrente == <<invocacoes>>

varsRetry == <<maxAttempts, attempt, pcR, enviados, esperas, ultimo, lastError, retorno>>

varsWipo == <<resultadoW, consultas>>

varsExtra == <<varsRetry, varsWipo>>

vars == <<varsDecisao, varsTexto, varsHandler, varsBroker, varsConcorrente, varsExtra>>

PENDENTE == [pendente |-> TRUE]

\* No call of httpGetWithRetry was made.
NADA == [nada |-> TRUE]

RetryParado ==
  /\ maxAttempts = 0
  /\ attempt = 0
  /\ pcR = "parado"
  /\ enviados = 0
  /\ esperas = 0
  /\ ultimo = NADA
  /\ lastError = NADA
  /\ retorno = NADA

\* The WIPO-first handler is not in use.
WipoParado ==
  /\ resultadoW = [tipo |-> "null"]
  /\ consultas = <<>>

ExtraParado == RetryParado /\ WipoParado

\* No invocation of the handler is in flight.
ConcorrenteParado == invocacoes = <<>>

\* The decision is not in use.
DecisaoParada ==
  /\ marcaDigitada = <<>>
  /\ processos = [tipo |-> "undefined"]
  /\ variante = "nenhuma"
  /\ decisao = PENDENTE

\* The text functions are not in use.
TextoParado ==
  /\ entrada = [tipo |-> "nenhuma"]
  /\ saida = PENDENTE

\* No request is in flight and none was served.
SEM_PEDIDO == [method |-> "nenhum"]

SEM_RESPOSTA == [status |-> 0]

\* The scraping handler is not in use.
HandlerParado ==
  /\ PLAYWRIGHT_ENABLED = FALSE
  /\ CACHE = <<>>
  /\ agora = 0
  /\ pedido = SEM_PEDIDO
  /\ pc = "ocioso"
  /\ resposta = SEM_RESPOSTA

\* The broker handlers are not in use.
BrokerParado ==
  /\ env = [variante |-> "nenhuma"]
  /\ pedidoB = SEM_PEDIDO
  /\ pcB = "ocioso"
  /\ paginas = <<>>
  /\ respostaB = SEM_RESPOSTA
  /\ termo = [nenhum |-> TRUE]
  /\ decidido = [nenhum |-> TRUE]

\* ------------------------------------------- specification of the decision

InitDecisao ==
  /\ marcaDigitada \in Marcas
  /\ processos \in Entradas
  /\ variante = "nenhuma"
  /\ decisao = PENDENTE

\* The scraping handler's call: decidirDisponibilidade(marcaTrimmed, processos).
Decidir ==
  /\ variante = "nenhuma"
  /\ variante' = "loose"
  /\ decisao' = decidirDisponibilidade(marcaDigitada, processos)
  /\ UNCHANGED <<marcaDigitada, processos, varsTexto, varsHandler, varsBroker, varsConcorrente, varsExtra>>

\* The paginated broker handler's call.
DecidirExata ==
  /\ variante = "nenhuma"
  /\ variante' = "exata"
  /\ decisao' = decidirDisponibilidade_exata(marcaDigitada, processos)
  /\ UNCHANGED <<marcaDigitada, processos, varsTexto, varsHandler, varsBroker, varsConcorrente, varsExtra>>

\* The single-page broker handler's call.
DecidirSimples ==
  /\ variante = "nenhuma"
  /\ variante' = "simples"
  /\ decisao' = decidirDisponibilidade_simples(marcaDigitada, processos)
  /\ UNCHANGED <<marcaDigitada, processos, varsTexto, varsHandler, varsBroker, varsConcorrente, varsExtra>>

\* The GET broker handler's call.
DecidirGet ==
  /\ variante = "nenhuma"
  /\ variante' = "get"
  /\ decisao' = decidirDisponibilidade_get(marcaDigitada, processos)
  /\ UNCHANGED <<marcaDigitada, processos, varsTexto, varsHandler, varsBroker, varsConcorrente, varsExtra>>

Init == InitDecisao /\ TextoParado /\ HandlerParado /\ BrokerParado /\ ConcorrenteParado /\ ExtraParado

Next == Decidir \/ DecidirExata \/ DecidirSimples \/ DecidirGet

Spec == Init /\ [][Next]_vars

\* ------------------------------------- specification of the text functions

InitTexto ==
  /\ entrada \in EntradasTexto
  /\ saida = PENDENTE

\* The list of one record named a whose status is s.
UmRegistro(a, s) ==
  [tipo |-> "array", itens |-> << [marca |-> a, situacao |-> s] >>]

EM_VIGOR == <<"R","e","g","i","s","t","r","o"," ","d","e"," ","m","a","r","c","a"," ","e","m"," ","v","i","g","o","r">>

ARQUIVADO == <<"A","r","q","u","i","v","a","d","o">>

\* equalsLoose(a, b), the exact comparison, and the decisions of the loose and
\* the exact variant for the query b over one record named a, once with a
\* status in force and once with an archived one.
Comparar ==
  /\ entrada.tipo = "nomes"
  /\ saida = PENDENTE
  /\ saida' =
       [loose |-> equalsLoose(entrada.a, entrada.b),
        exata |-> EhRelevanteExata([marca |-> entrada.a], entrada.b),
        vigor_loose |->
          decidirDisponibilidade(entrada.b, UmRegistro(entrada.a, EM_VIGOR)),
        vigor_exata |->
          decidirDisponibilidade_exata(entrada.b, UmRegistro(entrada.a, EM_VIGOR)),
        arquivado_loose |->
          decidirDisponibilidade(entrada.b, UmRegistro(entrada.a, ARQUIVADO)),
        arquivado_exata |->
          decidirDisponibilidade_exata(entrada.b, UmRegistro(entrada.a, ARQUIVADO))]
  /\ UNCHANGED <<entrada, varsDecisao, varsHandler, varsBroker, varsConcorrente, varsExtra>>

\* situacaoPermite(s) in the three variants.
Classificar ==
  /\ entrada.tipo = "situacao"
  /\ saida = PENDENTE
  /\ saida' = [permite       |-> situacaoPermite(entrada.s),
               permite_exata |-> situacaoPermite_exata(entrada.s),
               permite_wipo  |-> situacaoPermite_wipo(entrada.s)]
  /\ UNCHANGED <<entrada, varsDecisao, varsHandler, varsBroker, varsConcorrente, varsExtra>>

\* c.toUpperCase() of one character.
upperChar(c) ==
  IF \E i \in 1..Len(LowerLetters) : LowerLetters[i] = c
  THEN UpperLetters[CHOOSE i \in 1..Len(LowerLetters) : LowerLetters[i] = c]
  ELSE CASE c = "U+00E1" -> "U+00C1"
         [] c = "U+00E7" -> "U+00C7"
         [] c = "U+00FA" -> "U+00DA"
         [] OTHER -> c

\* The string s with the characters x put in after its first k characters
\* (after all of them when s is shorter).
Inserir(s, k, x) ==
  LET n == IF k < Len(s) THEN k ELSE Len(s)
  IN  SubSeq(s, 1, n) \o x \o SubSeq(s, n + 1, Len(s))

\* The string s respelled by the operation op at the position k.
Respelled(s, op, k) ==
  CASE op = "maiusculas" -> [i \in 1..Len(s) |-> upperChar(s[i])]
    [] op = "hifen" -> Inserir(s, k, <<"-">>)
    [] op = "espaco" -> Inserir(s, k, <<" ">>)
    [] op = "agudo" -> Inserir(s, k, <<"U+0301">>)
    [] op = "precomposto" ->
         [i \in 1..Len(s) |-> IF i = k + 1 /\ s[i] = "a" THEN "U+00E1" ELSE s[i]]

\* canonical(s), canonical of that, and canonical of s respelled.
Canonizar ==
  /\ entrada.tipo = "grafia"
  /\ saida = PENDENTE
  /\ saida' = [canonico  |-> canonical(entrada.s),
               denovo    |-> canonical(canonical(entrada.s)),
               respelled |-> Respelled(entrada.s, entrada.op, entrada.k),
               outro     |-> canonical(Respelled(entrada.s, entrada.op, entrada.k))]
  /\ UNCHANGED <<entrada, varsDecisao, varsHandler, varsBroker, varsConcorrente, varsExtra>>

InitT == InitTexto /\ DecisaoParada /\ HandlerParado /\ BrokerParado /\ ConcorrenteParado /\ ExtraParado

NextT == Comparar \/ Classificar \/ Canonizar

SpecTexto == InitT /\ [][NextT]_vars

\* ------------------------------------------------- the scraping handler

\* Largest number of clock steps of a run.
MaxTicks == 2

\* getTTLms: the time to live lies between 10 and 30 minutes.
TTL_MIN == 10

TTL_MAX == 30

\* The times to live drawn: the two ends of the range.
TTLs == {TTL_MIN, TTL_MAX}

\* (req.body?.marca or req.query?.marca) before "?? ''": a JavaScript value.
INDEFINIDO == [tipo |-> "undefined"]

Cadeia(v) == [tipo |-> "string", v |-> v]

\* The requests: the method, and the value sent as marca.
Pedidos ==
  { [method |-> "OPTIONS", marca |-> INDEFINIDO],
    [method |-> "DELETE",  marca |-> Cadeia(<<"S","o","l">>)],
    [method |-> "POST",    marca |-> INDEFINIDO],
    [method |-> "POST",    marca |-> [tipo |-> "number"]],
    [method |-> "GET",     marca |-> Cadeia(<<>>)],
    [method |-> "POST",    marca |-> Cadeia(<<" "," ">>)],
    [method |-> "POST",    marca |-> Cadeia(<<" ","S","o","l">>)],
    [method |-> "GET",     marca |-> Cadeia(<<"S","O","L">>)],
    [method |-> "GET",     marca |-> Cadeia(<<"L","u","a">>)] }

\* !marca || typeof marca !== 'string' || marca.trim() === ''
marcaInvalida(marca) ==
  \/ marca.tipo # "string"
  \/ marca.v = <<>>
  \/ trim(marca.v) = <<>>

\* Rows as parseTabelaHTML pushes them: every field is a string, and numero,
\* marca or situacao is not empty.
Linhas ==
  { [numero |-> <<"1">>, marca |-> <<"G","i","r","a","s","s","o","l">>, situacao |-> <<"R","e","g","i","s","t","r","o"," ","d","e"," ","m","a","r","c","a"," ","e","m"," ","v","i","g","o","r">>],
    [numero |-> <<"2">>, marca |-> <<"S","o","l">>, situacao |-> <<"A","r","q","u","i","v","a","d","o">>],
    [numero |-> <<"3">>, marca |-> <<>>, situacao |-> <<"R","e","g","i","s","t","r","o"," ","d","e"," ","m","a","r","c","a"," ","e","m"," ","v","i","g","o","r">>] }

\* What tentarCheerio and tentarPlaywright resolve to when a result page was
\* read: processos is always an array.
Resultados(metodo) ==
  { [processos |-> l, paginasColetadas |-> 1, metodo |-> metodo] :
      l \in {<<>>} \cup {<<x>> : x \in Linhas} }

\* Mutant: an entry never expires.
cacheHit_semPrazo(key) == key \in DOMAIN CACHE

\* cacheGet(key): the value, or null when the key is absent or expired.
cacheHit(key) == key \in DOMAIN CACHE /\ ~(agora > CACHE[key].expiresAt)

\* Mutant: the lookup empties the map.
cacheAposGet_limpa(key) == <<>>

\* The map after cacheGet(key): an expired entry is deleted.
cacheAposGet(key) ==
  IF key \in DOMAIN CACHE /\ agora > CACHE[key].expiresAt
  THEN [k \in DOMAIN CACHE \ {key} |-> CACHE[k]]
  ELSE CACHE

\* The map after cacheSet(key, value) with the time to live ttl.
cacheAposSet(key, value, ttl) ==
  [k \in DOMAIN CACHE \cup {key} |->
     IF k = key THEN [value |-> value, expiresAt |-> agora + ttl] ELSE CACHE[k]]

\* `marca:${canonical(marcaTrimmed)}`
cacheKey(marcaTrimmed) == <<"m","a","r","c","a",":">> \o canonical(marcaTrimmed)

MOTIVO_DESATIVADO == "Fallback com navegador desativado no servidor."

\* res.status(status).json(body), or .end() when body is SEM_CORPO.
SEM_CORPO == [fim |-> TRUE]

Responder(status, body) ==
  /\ resposta' = [status |-> status, body |-> body]
  /\ pc' = "ocioso"

\* The body built from a scraper's result and the decision over it.
respostaDe(marcaTrimmed, resultado) ==
  LET d == decidirDisponibilidade(
             marcaTrimmed, [tipo |-> "array", itens |-> resultado.processos])
  IN  [marca |-> marcaTrimmed,
       disponivel |-> d.disponivel,
       motivo |-> d.motivo,
       processos |-> resultado.processos,
       metodo |-> resultado.metodo,
       paginas_coletadas |-> resultado.paginasColetadas]

\* The body sent when Cheerio failed and the browser fallback is switched off.
respostaDesativado(marcaTrimmed) ==
  [marca |-> marcaTrimmed,
   disponivel |-> FALSE,
   motivo |-> MOTIVO_DESATIVADO,
   processos |-> <<>>,
   metodo |-> "desativado",
   paginas_coletadas |-> 0]

\* The tail of the handler: cacheSet(cacheKey, resposta), then 200.
GuardarEResponder(body) ==
  \E ttl \in TTLs :
    /\ CACHE' = cacheAposSet(cacheKey(body.marca), body, ttl)
    /\ Responder(200, body)

\* A request arrives; the handler runs to its first await: CORS, method,
\* validation, cache lookup.
Chegar(method, marca) ==
  /\ pc = "ocioso"
  /\ pedido' = [method |-> method, marca |-> marca]
  /\ IF method = "OPTIONS"
     THEN Responder(200, SEM_CORPO) /\ UNCHANGED CACHE
     ELSE IF method \notin {"POST", "GET"}
     THEN Responder(405, [erro |-> "Metodo nao permitido"]) /\ UNCHANGED CACHE
     ELSE IF marcaInvalida(marca)
     THEN Responder(422, [erro |-> "Validacao falhou"]) /\ UNCHANGED CACHE
     ELSE LET key == cacheKey(trim(marca.v))
          IN  IF cacheHit(key)
              THEN Responder(200, CACHE[key].value) /\ UNCHANGED CACHE
              ELSE /\ CACHE' = cacheAposGet(key)
                   /\ pc' = "cheerio"
                   /\ resposta' = SEM_RESPOSTA
  /\ UNCHANGED <<PLAYWRIGHT_ENABLED, agora, varsDecisao, varsTexto, varsBroker, varsConcorrente, varsExtra>>

\* tentarCheerio resolved to a result.
CheerioRetorna(resultado) ==
  /\ pc = "cheerio"
  /\ GuardarEResponder(respostaDe(trim(pedido.marca.v), resultado))
  /\ UNCHANGED <<PLAYWRIGHT_ENABLED, agora, pedido, varsDecisao, varsTexto, varsBroker, varsConcorrente, varsExtra>>

\* tentarCheerio resolved to null: every endpoint failed.  tentarPlaywright
\* throws at once when the flag is off, and the handler answers 200.
CheerioFalha ==
  /\ pc = "cheerio"
  /\ IF PLAYWRIGHT_ENABLED
     THEN pc' = "playwright" /\ UNCHANGED <<CACHE, resposta>>
     ELSE GuardarEResponder(respostaDesativado(trim(pedido.marca.v)))
  /\ UNCHANGED <<PLAYWRIGHT_ENABLED, agora, pedido, varsDecisao, varsTexto, varsBroker, varsConcorrente, varsExtra>>

\* tentarPlaywright resolved to a result.
PlaywrightRetorna(resultado) ==
  /\ pc = "playwright"
  /\ GuardarEResponder(respostaDe(trim(pedido.marca.v), resultado))
  /\ UNCHANGED <<PLAYWRIGHT_ENABLED, agora, pedido, varsDecisao, varsTexto, varsBroker, varsConcorrente, varsExtra>>

\* tentarPlaywright rejected: the browser could not render the page.
PlaywrightFalha ==
  /\ pc = "playwright"
  /\ Responder(502, [erro |-> "INPI indisponivel"])
  /\ UNCHANGED <<PLAYWRIGHT_ENABLED, CACHE, agora, pedido, varsDecisao, varsTexto, varsBroker, varsConcorrente, varsExtra>>

\* Time passes: the clock advances by the shortest time to live.
Tick ==
  /\ agora + TTL_MIN <= MaxTicks * TTL_MIN
  /\ agora' = agora + TTL_MIN
  /\ UNCHANGED <<PLAYWRIGHT_ENABLED, CACHE, pedido, pc, resposta,
                 varsDecisao, varsTexto, varsBroker, varsConcorrente, varsExtra>>

InitHandler ==
  /\ PLAYWRIGHT_ENABLED \in BOOLEAN
  /\ CACHE = <<>>
  /\ agora = 0
  /\ pedido = SEM_PEDIDO
  /\ pc = "ocioso"
  /\ resposta = SEM_RESPOSTA

InitH == InitHandler /\ DecisaoParada /\ TextoParado /\ BrokerParado /\ ConcorrenteParado /\ ExtraParado

NextH ==
  \/ \E p \in Pedidos : Chegar(p.method, p.marca)
  \/ \E resultado \in Resultados("cheerio") : CheerioRetorna(resultado)
  \/ CheerioFalha
  \/ \E resultado \in Resultados("playwright") : PlaywrightRetorna(resultado)
  \/ PlaywrightFalha
  \/ Tick

SpecHandler == InitH /\ [][NextH]_vars

\* --------------------------------------------------- the broker handlers

\* Largest total_paginas a broker body announces.
MaxPaginas == 2

\* A JavaScript array.
Arr(itens) == [tipo |-> "array", itens |-> itens]

\* Records as the broker delivers them.
REG_VIGOR ==
  [numero |-> <<"1">>, marca |-> <<"S","O","L">>, situacao |-> <<"R","e","g","i","s","t","r","o"," ","d","e"," ","m","a","r","c","a"," ","e","m"," ","v","i","g","o","r">>,
   titular |-> <<"T">>, classe |-> <<"0","3">>]

REG_ARQUIVADO ==
  [numero |-> <<"2">>, marca |-> <<"S","o","l">>, situacao |-> <<"A","r","q","u","i","v","a","d","o">>,
   titular |-> <<"T">>, classe |-> <<"0","3">>]

ListasDoBroker == {<<>>, <<REG_VIGOR>>, <<REG_ARQUIVADO>>}

\* data: [{ processos, total_paginas }], the block of one page.
Blocos ==
  {[processos |-> Arr(l)] : l \in ListasDoBroker}
    \cup {[processos |-> Arr(l), total_paginas |-> t] :
            l \in ListasDoBroker, t \in {1, MaxPaginas}}

\* Bodies of a broker answer with HTTP status 2xx.
Corpos ==
  {[code |-> 200, data |-> Arr(<<b>>)] : b \in Blocos}
    \cup {[code |-> 200, data |-> [tipo |-> "object", processos |-> Arr(l)]] :
            l \in ListasDoBroker}
    \cup { [code |-> 200, data |-> [tipo |-> "object", processos |-> [tipo |-> "object"]]],
           [code |-> 200, data |-> Arr(<<[processos |-> Arr(<<REG_VIGOR>>)]>>),
            total_paginas |-> MaxPaginas],
           [code |-> 200, data |-> Arr(<<[processos |-> Arr(<<REG_ARQUIVADO>>)]>>),
            total_paginas |-> MaxPaginas + 1],
           [code |-> 600, code_message |-> "falha", data |-> Arr(<<>>)],
           [code_message |-> "falha"] }

\* How axios.post rejects: a response with an HTTP error status, a timeout, or
\* another network error.
Rejeicoes == {"HTTP", "ECONNABORTED", "ETIMEDOUT", "ECONNRESET"}

\* Mutant: no body code counts as a failure.
codeDeFalha_nunca(body) == FALSE

\* first?.code && first.code !== 200
codeDeFalha(body) == "code" \in DOMAIN body /\ body.code # 0 /\ body.code # 200

\* Array.isArray(body?.data)
dataEhArray(body) == "data" \in DOMAIN body /\ body.data.tipo = "array"

RECURSIVE flatMapProcessos(_)
flatMapProcessos(blocos) ==
  IF blocos = <<>> THEN <<>>
  ELSE LET b == Head(blocos)
       IN  (IF "processos" \in DOMAIN b /\ IsArray(b.processos)
            THEN b.processos.itens ELSE <<>>)
             \o flatMapProcessos(Tail(blocos))

\* Mutant: the blocks are not read, the list is always empty.
extrairProcessos_vazio(resultado) == Arr(<<>>)

extrairProcessos(resultado) ==
  IF ~dataEhArray(resultado) THEN Arr(<<>>)
  ELSE Arr(flatMapProcessos(resultado.data.itens))

\* n || 1
ouUm(n) == IF n = 0 THEN 1 ELSE n

extrairTotalPaginas(resultado) ==
  IF /\ dataEhArray(resultado)
     /\ resultado.data.itens # <<>>
     /\ "total_paginas" \in DOMAIN resultado.data.itens[1]
  THEN ouUm(resultado.data.itens[1].total_paginas)
  ELSE IF "total_paginas" \in DOMAIN resultado
  THEN ouUm(resultado.total_paginas)
  ELSE 1

\* blocos: the data arrays of the pages received, concatenated.
RECURSIVE blocosDe(_)
blocosDe(pags) ==
  IF pags = <<>> THEN <<>>
  ELSE (IF dataEhArray(Head(pags)) THEN Head(pags).data.itens ELSE <<>>)
         \o blocosDe(Tail(pags))

\* resultado?.data?.processos || [] of the single-page handler.
processosDoCorpo(resultado) ==
  IF /\ "data" \in DOMAIN resultado
     /\ "processos" \in DOMAIN resultado.data
  THEN resultado.data.processos
  ELSE Arr(<<>>)

MOCK_NATURA ==
  [code |-> 200,
   data |-> Arr(<< [processos |-> Arr(<<
                      [numero |-> <<"9","0","0","0","0","0","0","0","1">>, marca |-> <<"N","A","T","U","R","A">>,
                       situacao |-> <<"R","e","g","i","s","t","r","o"," ","d","e"," ","m","a","r","c","a"," ","e","m"," ","v","i","g","o","r">>,
                       titular |-> <<"N","a","t","u","r","a">>, classe |-> <<"0","3">>],
                      [numero |-> <<"9","0","0","0","0","0","0","0","2">>, marca |-> <<"N","A","T","U","R","A">>,
                       situacao |-> <<"A","l","t","o"," ","R","e","n","o","m","e">>,
                       titular |-> <<"N","a","t","u","r","a">>, classe |-> <<"0","3">>] >>),
                    total_paginas |-> 1] >>)]

MOCK_COCA_COLA ==
  [code |-> 200,
   data |-> Arr(<< [processos |-> Arr(<<
                      [numero |-> <<"9","0","0","0","0","0","0","0","3">>, marca |-> <<"C","O","C","A","-","C","O","L","A">>,
                       situacao |-> <<"A","l","t","o"," ","R","e","n","o","m","e">>,
                       titular |-> <<"C","o","c","a","-","C","o","l","a">>, classe |-> <<"3","2">>] >>),
                    total_paginas |-> 1] >>)]

MOCK_VAZIO ==
  [code |-> 200, data |-> Arr(<< [processos |-> Arr(<<>>), total_paginas |-> 1] >>)]

\* MOCK_DATA[mockKey], or SEM_MOCK when the key is absent.
SEM_MOCK == [ausente |-> TRUE]

MOCK_DATA(mockKey) ==
  IF mockKey = <<"n","a","t","u","r","a">> THEN MOCK_NATURA
  ELSE IF mockKey = <<"c","o","c","a","-","c","o","l","a">> THEN MOCK_COCA_COLA
  ELSE IF mockKey = <<"x","y","z","m","i","n","h","a","m","a","r","c","a","2","0","2","5">> THEN MOCK_VAZIO
  ELSE SEM_MOCK

MOTIVO_MOCK == "Nenhum registro encontrado (mock)"

\* The deployments: the handler variant (the paginated POST broker handler,
\* the single-page one, the paginated GET one), INFOSIMPLES_TOKEN set or
\* not, and MOCK_INFOSIMPLES (which the single-page handler does not read).
Ambientes ==
  [variante : {"paginada", "get"}, token : BOOLEAN, mock : BOOLEAN]
    \cup [variante : {"simples"}, token : BOOLEAN, mock : {FALSE}]

\* The requests: the method, and the value sent as marca (in the body, or in
\* the query string for the GET handler).
PedidosB ==
  { [method |-> "OPTIONS", marca |-> INDEFINIDO],
    [method |-> "GET",     marca |-> Cadeia(<<"S","o","l">>)],
    [method |-> "POST",    marca |-> INDEFINIDO],
    [method |-> "POST",    marca |-> [tipo |-> "number"]],
    [method |-> "POST",    marca |-> Cadeia(<<" "," ">>)],
    [method |-> "POST",    marca |-> Cadeia(<<" ","S","o","l">>)],
    [method |-> "POST",    marca |-> Cadeia(<<"N","A","T","U","R","A">>)],
    [method |-> "POST",    marca |-> Cadeia(<<"C","O","C","A","-","C","O","L","A">>)],
    [method |-> "POST",    marca |-> Cadeia(<<"X","Y","Z","M","I","N","H","A","M","A","R","C","A","2","0","2","5">>)] }

\* Nothing was handed downstream.
NENHUM == [nenhum |-> TRUE]

ResponderB(status, body) ==
  /\ respostaB' = [status |-> status, body |-> body]
  /\ pcB' = "ocioso"

\* A request is turned away before anything is handed downstream.
Recusar(status, body) ==
  /\ ResponderB(status, body)
  /\ termo' = NENHUM
  /\ decidido' = NENHUM

\* The decision of the variant in use.
decisaoDaVariante(marca, procs) ==
  IF env.variante = "simples" THEN decidirDisponibilidade_simples(marca, procs)
  ELSE IF env.variante = "get" THEN decidirDisponibilidade_get(marca, procs)
  ELSE decidirDisponibilidade_exata(marca, procs)

\* The tail of the broker handlers: decide over procs and answer 200; an
\* exception of the decision is caught and answered with 500.
DecidirEResponder(marca, procs, paginasColetadas) ==
  LET d == decisaoDaVariante(marca, procs)
  IN  /\ decidido' = [marca |-> marca, processos |-> procs]
      /\ IF "lancou" \in DOMAIN d
         THEN ResponderB(500, [erro |-> "Erro interno"])
         ELSE IF env.variante = "simples"
         THEN ResponderB(200,
                [marca |-> marca, disponivel |-> d.disponivel,
                 motivo |-> d.motivo, processos |-> d.processos])
         ELSE ResponderB(200,
                [marca |-> marca, disponivel |-> d.disponivel,
                 motivo |-> d.motivo, processos |-> d.processos,
                 paginas_coletadas |-> paginasColetadas])

\* The mock branch: the records stored under normalize(marca).  The paginated
\* POST handler answers at once when the key is absent; the GET handler
\* decides over the empty list.
ResponderMock(marca) ==
  LET mock == MOCK_DATA(normalize(marca))
  IN  /\ termo' = NENHUM
      /\ IF mock # SEM_MOCK
         THEN DecidirEResponder(marca, extrairProcessos(mock), extrairTotalPaginas(mock))
         ELSE IF env.variante = "get"
         THEN DecidirEResponder(marca, Arr(<<>>), 1)
         ELSE /\ decidido' = NENHUM
              /\ ResponderB(200,
                   [marca |-> marca, disponivel |-> TRUE,
                    motivo |-> MOTIVO_MOCK, processos |-> <<>>,
                    paginas_coletadas |-> 1])

\* The handler from the accepted query on, up to its first await.
Aceitar(marca) ==
  IF env.variante # "simples" /\ env.mock
  THEN ResponderMock(marca)
  ELSE IF env.variante # "simples" /\ ~env.token
  THEN /\ termo' = NENHUM
       /\ decidido' = NENHUM
       /\ ResponderB(500, [erro |-> IF env.variante = "get" THEN "Erro interno"
                                    ELSE "Configuracao"])
  ELSE /\ termo' = marca
       /\ decidido' = NENHUM
       /\ pcB' = "pagina"
       /\ respostaB' = SEM_RESPOSTA

\* A request arrives; the handler runs to its first await.  The GET handler
\* looks neither at the method nor at the white space of the query.
ChegarB(method, marca) ==
  /\ pcB = "ocioso"
  /\ pedidoB' = [method |-> method, marca |-> marca]
  /\ paginas' = <<>>
  /\ IF env.variante = "get"
     THEN IF marca.tipo # "string" \/ marca.v = <<>>
          THEN Recusar(400, [erro |-> "Parametro marca obrigatorio"])
          ELSE Aceitar(marca.v)
     ELSE IF method = "OPTIONS"
     THEN Recusar(200, SEM_CORPO)
     ELSE IF method # "POST"
     THEN Recusar(405, [erro |-> "Metodo nao permitido"])
     ELSE IF marcaInvalida(marca)
     THEN Recusar(422, [erro |-> "Validacao falhou"])
     ELSE Aceitar(trim(marca.v))
  /\ UNCHANGED <<env, varsDecisao, varsTexto, varsHandler, varsConcorrente, varsExtra>>

\* The pages the handler variant in use still wants after the pages pags:
\* the paginated POST handler reads the total of page 1, the GET handler the
\* top-level total of the page just read.
faltamPaginas(pags) ==
  IF env.variante = "get"
  THEN LET ultima == pags[Len(pags)]
       IN  Len(pags) + 1 <=
             (IF "total_paginas" \in DOMAIN ultima THEN ouUm(ultima.total_paginas) ELSE 1)
  ELSE Len(pags) < extrairTotalPaginas(pags[1])

\* The records of the pages pags, flattened in page order.
RECURSIVE processosDasPaginas(_)
processosDasPaginas(pags) ==
  IF pags = <<>> THEN <<>>
  ELSE extrairProcessos(Head(pags)).itens \o processosDasPaginas(Tail(pags))

\* An upstream call resolved: the body of the page asked for.
PaginaChega(body) ==
  /\ pcB = "pagina"
  /\ paginas' = Append(paginas, body)
  /\ IF env.variante = "simples"
     THEN DecidirEResponder(termo, processosDoCorpo(body), 1)
     ELSE IF IF env.variante = "get"
             THEN ~("code" \in DOMAIN body /\ body.code = 200)
             ELSE codeDeFalha(body)
     THEN ResponderB(502, [erro |-> "Erro ao consultar INPI"]) /\ UNCHANGED decidido
     ELSE IF faltamPaginas(paginas')
     THEN UNCHANGED <<pcB, respostaB, decidido>>
     ELSE IF env.variante = "get"
     THEN DecidirEResponder(termo, Arr(processosDasPaginas(paginas')),
            IF "total_paginas" \in DOMAIN body THEN ouUm(body.total_paginas) ELSE 1)
     ELSE DecidirEResponder(termo,
            extrairProcessos([code |-> 200, data |-> Arr(blocosDe(paginas'))]),
            extrairTotalPaginas([code |-> 200, data |-> Arr(blocosDe(paginas'))]))
  /\ UNCHANGED <<env, pedidoB, termo, varsDecisao, varsTexto, varsHandler, varsConcorrente, varsExtra>>

\* An upstream call rejected.  The GET handler knows the timeout codes only.
PaginaFalha(erro) ==
  /\ pcB = "pagina"
  /\ paginas' = Append(paginas, [rejeitado |-> erro])
  /\ IF erro \in {"ECONNABORTED", "ETIMEDOUT"}
     THEN ResponderB(504, [erro |-> "Timeout"])
     ELSE IF erro = "HTTP" /\ env.variante # "get"
     THEN ResponderB(502, [erro |-> "Erro ao consultar INPI"])
     ELSE ResponderB(500, [erro |-> "Erro interno"])
  /\ UNCHANGED <<env, pedidoB, termo, decidido, varsDecisao, varsTexto, varsHandler, varsConcorrente, varsExtra>>

InitBroker ==
  /\ env \in Ambientes
  /\ pedidoB = SEM_PEDIDO
  /\ pcB = "ocioso"
  /\ paginas = <<>>
  /\ respostaB = SEM_RESPOSTA
  /\ termo = NENHUM
  /\ decidido = NENHUM

InitB == InitBroker /\ DecisaoParada /\ TextoParado /\ HandlerParado /\ ConcorrenteParado /\ ExtraParado

NextB ==
  \/ \E p \in PedidosB : ChegarB(p.method, p.marca)
  \/ \E body \in Corpos : PaginaChega(body)
  \/ \E erro \in Rejeicoes : PaginaFalha(erro)

SpecBroker == InitB /\ [][NextB]_vars

\* ------------------------------------------ the decision over changed lists

\* Records of the lists that grow.
RegistrosCurtos ==
  [marca : {<<"S","O","L">>, <<"G","i","r","a","s","s","o","l">>}, situacao : {<<"E","m"," ","v","i","g","o","r">>, <<"A","r","q","u","i","v","a","d","o">>}]
    \cup {[marca |-> <<"L","u","a">>, situacao |-> <<"E","m"," ","v","i","g","o","r">>]}

ListasCurtas == UNION {[1..n -> RegistrosCurtos] : n \in 0..MaxProcessos}

\* A record whose fields are JavaScript values of any type, or null itself.
NULO == [tipo |-> "null"]

NUMERO == [tipo |-> "number"]

ITEM_NULO == [nulo |-> TRUE]

ItensTipados ==
  [marca : {INDEFINIDO, NULO, NUMERO, Cadeia(<<"S","O","L">>)},
   situacao : {INDEFINIDO, NUMERO, Cadeia(<<"E","m"," ","v","i","g","o","r">>), Cadeia(<<"A","r","q","u","i","v","a","d","o">>)}]
    \cup {ITEM_NULO}

ListasTipadas == UNION {[1..n -> ItensTipados] : n \in 0..MaxProcessos}

EntradasListas ==
  [tipo : {"acrescimo"}, q : {<<"S","o","l">>}, lista : ListasCurtas,
   r : RegistrosCurtos, k : 0..MaxProcessos]
    \cup [tipo : {"tipada"}, q : {<<"S","o","l">>}, lista : ListasTipadas]

\* v || '' for a field value: what is falsy reads as the empty string.
textoDe(v) == IF v.tipo = "string" THEN v.v ELSE <<>>

\* A truthy value that is no string: s.normalize is not a function.
naoCadeia(v) == v.tipo = "number"

\* The record with its falsy fields read as ''.
comoRegistro(p) == [marca |-> textoDe(p.marca), situacao |-> textoDe(p.situacao)]

\* processos.filter(...) throws: a null record, or a name that is no string.
filtroLanca(itens) ==
  \E i \in 1..Len(itens) : itens[i] = ITEM_NULO \/ naoCadeia(itens[i].marca)

\* exatos.every(...) throws: it reaches a status that is no string before it
\* stops at a status that is not terminal.
everyLanca(ex) ==
  \E i \in 1..Len(ex) :
    /\ naoCadeia(ex[i].situacao)
    /\ \A j \in 1..(i - 1) : situacaoPermite(textoDe(ex[j].situacao))

\* decidirDisponibilidade (loose when solta, else the exact one of the
\* paginated broker) over records whose fields may be of any type.
decidirTipado(solta, marca, itens) ==
  IF itens # <<>> /\ filtroLanca(itens)
  THEN [lancou |-> "TypeError"]
  ELSE LET regs == [i \in 1..Len(itens) |-> comoRegistro(itens[i])]
           Rel(p) == IF solta THEN EhRelevanteLoose(comoRegistro(p), marca)
                     ELSE EhRelevanteExata(comoRegistro(p), marca)
       IN  IF everyLanca(SelectSeq(itens, Rel))
           THEN [lancou |-> "TypeError"]
           ELSE IF solta
           THEN decidirDisponibilidade(marca, [tipo |-> "array", itens |-> regs])
           ELSE decidirDisponibilidade_exata(marca, [tipo |-> "array", itens |-> regs])

\* A record whose name or status is missing, null or no string, or which is
\* null itself.
Malformado(p) ==
  p = ITEM_NULO \/ p.marca.tipo # "string" \/ p.situacao.tipo # "string"

BemFormado(p) == ~Malformado(p)

InitListas ==
  /\ entrada \in EntradasListas
  /\ saida = PENDENTE

\* The decisions over a list and over the list with one record put in.
Acrescentar ==
  /\ entrada.tipo = "acrescimo"
  /\ saida = PENDENTE
  /\ LET antes == [tipo |-> "array", itens |-> entrada.lista]
         depois == [tipo |-> "array",
                    itens |-> Inserir(entrada.lista, entrada.k, <<entrada.r>>)]
     IN  saida' = [loose_antes  |-> decidirDisponibilidade(entrada.q, antes),
                   loose_depois |-> decidirDisponibilidade(entrada.q, depois),
                   get_antes    |-> decidirDisponibilidade_get(entrada.q, antes),
                   get_depois   |-> decidirDisponibilidade_get(entrada.q, depois)]
  /\ UNCHANGED <<entrada, varsDecisao, varsHandler, varsBroker, varsConcorrente, varsExtra>>

\* The decisions over a list of typed records and over its well-formed ones.
DecidirTipados ==
  /\ entrada.tipo = "tipada"
  /\ saida = PENDENTE
  /\ saida' = [loose_com |-> decidirTipado(TRUE, entrada.q, entrada.lista),
               loose_sem |-> decidirTipado(TRUE, entrada.q,
                                           SelectSeq(entrada.lista, BemFormado)),
               exata_com |-> decidirTipado(FALSE, entrada.q, entrada.lista),
               exata_sem |-> decidirTipado(FALSE, entrada.q,
                                           SelectSeq(entrada.lista, BemFormado))]
  /\ UNCHANGED <<entrada, varsDecisao, varsHandler, varsBroker, varsConcorrente, varsExtra>>

InitL == InitListas /\ DecisaoParada /\ HandlerParado /\ BrokerParado /\ ConcorrenteParado /\ ExtraParado

NextL == Acrescentar \/ DecidirTipados

SpecListas == InitL /\ [][NextL]_vars


\* ---------------------------------------------------------------------------
\* Concurrent invocations of the handler (src/api/busca-marca.js).  Node runs
\* each invocation up to its next await without interruption; between awaits
\* the invocations interleave.  They share the module-level CACHE; marca,
\* marcaTrimmed, r and resposta are locals of one invocation.
\* ---------------------------------------------------------------------------

Invocacoes == 1..2

LIVRE == [pc |-> "livre"]

\* The queries of the concurrent requests: two names with different cache
\* keys.
PedidosC == { Cadeia(<<" ","S","o","l">>), Cadeia(<<"L","u","a">>) }

\* Mutant: marcaTrimmed is shared, it holds the query of the highest
\* invocation in flight.
marcaTrimmedDe_partilhada(i) ==
  LET j == CHOOSE j \in Invocacoes :
             /\ invocacoes[j] # LIVRE
             /\ \A k \in Invocacoes : invocacoes[k] # LIVRE => k <= j
  IN  trim(invocacoes[j].marca.v)

\* const marcaTrimmed = marca.trim(), a local of invocation i.
marcaTrimmedDe(i) == trim(invocacoes[i].marca.v)

\* Invocation i starts and runs to its first await: validation (the query is
\* valid), cache lookup, and the answer on a hit.
ChegarC(i, marca) ==
  /\ invocacoes[i] = LIVRE
  /\ LET key == cacheKey(trim(marca.v))
     IN  IF cacheHit(key)
         THEN /\ invocacoes' = [invocacoes EXCEPT ![i] =
                   [pc |-> "fim", marca |-> marca, fresco |-> FALSE,
                    resposta |-> [status |-> 200, body |-> CACHE[key].value]]]
              /\ UNCHANGED CACHE
         ELSE /\ invocacoes' = [invocacoes EXCEPT ![i] =
                   [pc |-> "cheerio", marca |-> marca]]
              /\ CACHE' = cacheAposGet(key)
  /\ UNCHANGED <<PLAYWRIGHT_ENABLED, agora, pedido, pc, resposta,
                 varsDecisao, varsTexto, varsBroker, varsExtra>>

\* The tail of invocation i: cacheSet(cacheKey, resposta), then 200.
GuardarEResponderC(i, body, resultado) ==
  \E ttl \in TTLs :
    /\ CACHE' = cacheAposSet(cacheKey(marcaTrimmedDe(i)), body, ttl)
    /\ invocacoes' = [invocacoes EXCEPT ![i] =
         [pc |-> "fim", marca |-> invocacoes[i].marca, fresco |-> TRUE,
          resultado |-> resultado,
          resposta |-> [status |-> 200, body |-> body]]]

\* tentarCheerio of invocation i resolved to a result: the decision, the
\* cache write and the answer.
CheerioRetornaC(i, resultado) ==
  /\ invocacoes[i] # LIVRE
  /\ invocacoes[i].pc = "cheerio"
  /\ GuardarEResponderC(i, respostaDe(marcaTrimmedDe(i), resultado), resultado)
  /\ UNCHANGED <<PLAYWRIGHT_ENABLED, agora, pedido, pc, resposta,
                 varsDecisao, varsTexto, varsBroker, varsExtra>>

\* tentarCheerio of invocation i resolved to null and the browser fallback is
\* switched off: no decision is taken.
CheerioFalhaC(i) ==
  /\ invocacoes[i] # LIVRE
  /\ invocacoes[i].pc = "cheerio"
  /\ ~PLAYWRIGHT_ENABLED
  /\ GuardarEResponderC(i, respostaDesativado(marcaTrimmedDe(i)), SEM_CORPO)
  /\ UNCHANGED <<PLAYWRIGHT_ENABLED, agora, pedido, pc, resposta,
                 varsDecisao, varsTexto, varsBroker, varsExtra>>

\* The answer of invocation i was sent; the slot takes the next request.
TerminarC(i) ==
  /\ invocacoes[i] # LIVRE
  /\ invocacoes[i].pc = "fim"
  /\ invocacoes' = [invocacoes EXCEPT ![i] = LIVRE]
  /\ UNCHANGED <<varsHandler, varsDecisao, varsTexto, varsBroker, varsExtra>>

InitConcorrente ==
  /\ invocacoes = [i \in Invocacoes |-> LIVRE]
  /\ PLAYWRIGHT_ENABLED = FALSE
  /\ CACHE = <<>>
  /\ agora = 0
  /\ pedido = SEM_PEDIDO
  /\ pc = "ocioso"
  /\ resposta = SEM_RESPOSTA

InitC == InitConcorrente /\ DecisaoParada /\ TextoParado /\ BrokerParado /\ ExtraParado

NextC ==
  \/ \E i \in Invocacoes : \E marca \in PedidosC : ChegarC(i, marca)
  \/ \E i \in Invocacoes : \E r \in Resultados("cheerio") : CheerioRetornaC(i, r)
  \/ \E i \in Invocacoes : CheerioFalhaC(i)
  \/ \E i \in Invocacoes : TerminarC(i)

SpecConcorrente == InitC /\ [][NextC]_vars

\* ---------------------------------------------------------------------------
\* httpGetWithRetry(urlBuilder, termoMarca, maxAttempts = 3) of
\* src/api/busca-marca.js and src/unnamed/part_006: one call, from its start to
\* its return or throw.  axios is told validateStatus: () => true, so every
\* answer resolves and only a request error rejects.
\* ---------------------------------------------------------------------------

MaxTentativas == 3

\* What one axios.get settles to: an answer with a status and a body that is a
\* string or not, or a rejection.
Desfechos ==
  [status : {200, 204}, cadeia : BOOLEAN]
    \cup [status : {302, 404, 429, 500, 502, 503, 504}, cadeia : {TRUE}]
    \cup {[rejeitado |-> "ECONNRESET"]}

\* [429, 500, 502, 503, 504].includes(status)
RETENTAVEIS == {429, 500, 502, 503, 504}

\* status >= 200 && status < 300 && typeof html === 'string'
sucesso(d) ==
  /\ "status" \in DOMAIN d
  /\ d.status >= 200
  /\ d.status < 300
  /\ d.cadeia

\* Mutant: the loop runs one attempt more.
dentroDoLimite_maisUma(n) == n <= maxAttempts + 1

\* attempt <= maxAttempts
dentroDoLimite(n) == n <= maxAttempts

\* The loop goes round with n as the next attempt: the request is sent, or
\* the loop is left and lastError (or the fixed error) is thrown.
proximaVolta(n, erro) ==
  /\ attempt' = n
  /\ lastError' = erro
  /\ IF dentroDoLimite(n)
     THEN /\ pcR' = "axios"
          /\ enviados' = enviados + 1
          /\ UNCHANGED retorno
     ELSE /\ pcR' = "lancou"
          /\ retorno' = [lancou |-> IF erro = NADA
                                    THEN [mensagem |-> "Falha HTTP apos tentativas"]
                                    ELSE erro]
          /\ UNCHANGED enviados

\* await backoffWait(attempt) starts.
esperar(erro) ==
  /\ pcR' = "backoff"
  /\ esperas' = esperas + 1
  /\ lastError' = erro
  /\ UNCHANGED <<attempt, enviados, retorno>>

\* The call starts with the argument n and runs to its first await.
Chamar(n) ==
  /\ pcR = "parado"
  /\ maxAttempts' = n
  /\ attempt' = 1
  /\ lastError' = NADA
  /\ IF 1 <= n
     THEN /\ pcR' = "axios"
          /\ enviados' = enviados + 1
          /\ UNCHANGED retorno
     ELSE /\ pcR' = "lancou"
          /\ retorno' = [lancou |-> [mensagem |-> "Falha HTTP apos tentativas"]]
          /\ UNCHANGED enviados
  /\ UNCHANGED <<esperas, ultimo>>
  /\ UNCHANGED <<varsDecisao, varsTexto, varsHandler, varsBroker, varsConcorrente, varsWipo>>

\* The catch block: lastError = err, and a wait unless this was the last
\* attempt.
capturar(erro) ==
  IF attempt < maxAttempts
  THEN esperar(erro)
  ELSE proximaVolta(attempt + 1, erro) /\ UNCHANGED esperas

\* axios.get resolved with the answer d.
Responde(d) ==
  /\ pcR = "axios"
  /\ "status" \in DOMAIN d
  /\ ultimo' = d
  /\ IF sucesso(d)
     THEN /\ pcR' = "retornou"
          /\ retorno' = [html |-> attempt]
          /\ UNCHANGED <<attempt, enviados, esperas, lastError>>
     ELSE IF d.status \in RETENTAVEIS
     THEN esperar([mensagem |-> "HTTP", status |-> d.status])
     ELSE capturar([mensagem |-> "Status nao esperado", status |-> d.status])
  /\ UNCHANGED maxAttempts
  /\ UNCHANGED <<varsDecisao, varsTexto, varsHandler, varsBroker, varsConcorrente, varsWipo>>

\* axios.get rejected with the error d.
Rejeita(d) ==
  /\ pcR = "axios"
  /\ "rejeitado" \in DOMAIN d
  /\ ultimo' = d
  /\ capturar([mensagem |-> d.rejeitado])
  /\ UNCHANGED maxAttempts
  /\ UNCHANGED <<varsDecisao, varsTexto, varsHandler, varsBroker, varsConcorrente, varsWipo>>

\* backoffWait resolved: attempt++ and the loop goes round.
FimDaEspera ==
  /\ pcR = "backoff"
  /\ proximaVolta(attempt + 1, lastError)
  /\ UNCHANGED <<maxAttempts, esperas, ultimo>>
  /\ UNCHANGED <<varsDecisao, varsTexto, varsHandler, varsBroker, varsConcorrente, varsWipo>>

InitRetry == RetryParado

InitR ==
  InitRetry /\ DecisaoParada /\ TextoParado /\ HandlerParado /\ BrokerParado
    /\ ConcorrenteParado /\ WipoParado

NextR ==
  \/ \E n \in 0..MaxTentativas : Chamar(n)
  \/ \E d \in Desfechos : Responde(d)
  \/ \E d \in Desfechos : Rejeita(d)
  \/ FimDaEspera

SpecRetry == InitR /\ [][NextR]_vars

\* ---------------------------------------------------------------------------
\* The micro-cache alone: cacheGet, cacheSet and getTTLms of
\* src/api/busca-marca.js, src/unnamed/part_006 (a random time to live between
\* 10 and 30 minutes) and src/unnamed/part_008 (15 minutes), with the clock.
\* Times are minutes.
\* ---------------------------------------------------------------------------

TTL_SESSAO == 15

\* Math.floor(Math.random() * (max - min + 1)): an integer from 0 to max - min;
\* the least, the greatest and one between.
Sorteios == {0, TTL_SESSAO - TTL_MIN, TTL_MAX - TTL_MIN}

\* getTTLms() of the variant, with the draw of Math.random.
getTTLms(v, sorteio) == IF v = "sessao" THEN TTL_SESSAO ELSE sorteio + TTL_MIN

Chaves == {<<"m","a","r","c","a",":","s","o","l">>, <<"m","a","r","c","a",":","l","u","a">>}

\* The clock moves in steps of half the least time to live.
PASSO == TTL_MIN \div 2

NULO_CACHE == [tipo |-> "null"]

\* cacheSet(key, value): the value is a response built now (its
\* metadata.timestamp is the moment of writing).
CacheSet(key, sorteio) ==
  /\ CACHE' = cacheAposSet(key, [escrito |-> agora],
                           getTTLms(entrada.variante, sorteio))
  /\ saida' = [op |-> "set", key |-> key, em |-> agora]
  /\ UNCHANGED <<agora, entrada, PLAYWRIGHT_ENABLED, pedido, pc, resposta>>
  /\ UNCHANGED <<varsDecisao, varsBroker, varsConcorrente, varsExtra>>

\* cacheGet(key): the value or null; an expired entry is deleted.
CacheGet(key) ==
  /\ saida' = [op |-> "get", key |-> key, em |-> agora,
               valor |-> IF cacheHit(key) THEN CACHE[key].value ELSE NULO_CACHE]
  /\ CACHE' = cacheAposGet(key)
  /\ UNCHANGED <<agora, entrada, PLAYWRIGHT_ENABLED, pedido, pc, resposta>>
  /\ UNCHANGED <<varsDecisao, varsBroker, varsConcorrente, varsExtra>>

\* Time passes.
Relogio ==
  /\ agora + PASSO <= TTL_MAX + MaxTicks * PASSO
  /\ agora' = agora + PASSO
  /\ UNCHANGED <<CACHE, entrada, saida, PLAYWRIGHT_ENABLED, pedido, pc, resposta>>
  /\ UNCHANGED <<varsDecisao, varsBroker, varsConcorrente, varsExtra>>

InitCache ==
  /\ entrada \in [variante : {"principal", "sessao"}]
  /\ saida = [op |-> "nenhuma"]
  /\ CACHE = <<>>
  /\ agora = 0
  /\ PLAYWRIGHT_ENABLED = FALSE
  /\ pedido = SEM_PEDIDO
  /\ pc = "ocioso"
  /\ resposta = SEM_RESPOSTA

InitK == InitCache /\ DecisaoParada /\ BrokerParado /\ ConcorrenteParado /\ ExtraParado

NextK ==
  \/ \E key \in Chaves : \E sorteio \in Sorteios : CacheSet(key, sorteio)
  \/ \E key \in Chaves : CacheGet(key)
  \/ Relogio

SpecCache == InitK /\ [][NextK]_vars
\* ---------------------------------------------------------------------------
\* The WIPO-first handler of src/unnamed/part_006: WIPO (IPO-BR) first, INPI
\* (Cheerio) as the fallback, no browser.  It shares the micro-cache, the
\* clock, the request, the position and the response with the scraping
\* handler, whose code it repeats up to the cache lookup.
\* ---------------------------------------------------------------------------

MOTIVO_NENHUM_wipo == "Nenhum registro encontrado (busca aproximada)"

MOTIVO_NAO_TERMINAIS_wipo ==
  "Ha situacao(oes) nao-terminais (ex.: registro em vigor, exame/publicacao, etc.)"

\* exatos.every(p => situacaoPermite(p.situacao || '')) with the fifteen stems.
todasTerminais_wipo(ex) ==
  \A i \in 1..Len(ex) : situacaoPermite_wipo(campo(ex[i], "situacao"))

\* decidirDisponibilidade of the WIPO-first variant.
decidirDisponibilidade_wipo(marca, lista) ==
  IF ~IsArray(lista) \/ Len(lista.itens) = 0
  THEN [disponivel |-> TRUE, motivo |-> MOTIVO_NENHUM_wipo]
  ELSE LET ex == exatos(marca, lista.itens)
       IN  IF Len(ex) = 0
           THEN [disponivel |-> TRUE, motivo |-> MOTIVO_SEM_EXATO]
           ELSE IF todasTerminais_wipo(ex)
           THEN [disponivel |-> TRUE, motivo |-> MOTIVO_TERMINAIS]
           ELSE [disponivel |-> FALSE, motivo |-> MOTIVO_NAO_TERMINAIS_wipo]

\* The requests: one of each early answer, and three queries with two keys.
PedidosW ==
  { [method |-> "OPTIONS", marca |-> INDEFINIDO],
    [method |-> "DELETE",  marca |-> Cadeia(<<"S","o","l">>)],
    [method |-> "POST",    marca |-> INDEFINIDO],
    [method |-> "POST",    marca |-> Cadeia(<<" ","S","o","l">>)],
    [method |-> "GET",     marca |-> Cadeia(<<"S","O","L">>)],
    [method |-> "GET",     marca |-> Cadeia(<<"L","u","a">>)] }

\* Rows as parseWipoResultsHTML pushes them.
LinhasWipo ==
  { [marca |-> <<"S","o","l">>, situacao |-> <<"E","x","p","i","r","e","d">>, titular |-> <<"T">>, classe |-> <<"3","5">>],
    [marca |-> <<"G","i","r","a","s","s","o","l">>, situacao |-> <<"R","e","g","i","s","t","e","r","e","d">>, titular |-> <<"T">>, classe |-> <<"3","5">>] }

\* Rows as parseTabelaINPI pushes them.
LinhasINPI ==
  { [numero |-> <<"1">>, marca |-> <<"S","o","l">>, situacao |-> <<"R","e","g","i","s","t","r","o"," ","d","e"," ","m","a","r","c","a"," ","e","m"," ","v","i","g","o","r">>,
     titular |-> <<"T">>, classe |-> <<"3","5">>],
    [numero |-> <<"2">>, marca |-> <<"L","u","a">>, situacao |-> <<"A","r","q","u","i","v","a","d","o">>,
     titular |-> <<"T">>, classe |-> <<"3","5">>] }

\* tentarWipo threw: a request error, or `WIPO HTTP ${status}`.
LANCOU == [tipo |-> "lancou"]

\* What tentarWipo returns: processos is what parseWipoResultsHTML returned.
ResultadosWipo ==
  { [processos |-> Arr(l), paginasColetadas |-> 1, metodo |-> "wipo"] :
      l \in {<<>>} \cup {<<x>> : x \in LinhasWipo} }

\* What tentarINPI returns when an endpoint gave a result page.
ResultadosINPI ==
  { [processos |-> Arr(l), paginasColetadas |-> 1, metodo |-> "inpi"] :
      l \in {<<>>} \cup {<<x>> : x \in LinhasINPI} }

\* Mutant: the fallback runs only when WIPO threw.
precisaFallback_soNulo(r) == r = NULO

\* !resultado || !Array.isArray(resultado.processos)
\*   || resultado.processos.length === 0
precisaFallback(r) ==
  \/ r = NULO
  \/ ~IsArray(r.processos)
  \/ Len(r.processos.itens) = 0

\* !resultado || !Array.isArray(resultado.processos)
semResultado(r) == r = NULO \/ ~IsArray(r.processos)

\* processos.slice(0, 30)
slice30(l) == IF Len(l) <= 30 THEN l ELSE SubSeq(l, 1, 30)

\* The body built from resultado: the decision over its records.  Every body
\* built here passes validateResponse.
respostaDe_wipo(marcaTrimmed, r) ==
  LET d == decidirDisponibilidade_wipo(marcaTrimmed, r.processos)
  IN  [marca |-> marcaTrimmed,
       disponivel |-> d.disponivel,
       motivo |-> d.motivo,
       processos |-> slice30(r.processos.itens),
       fonte |-> IF r.metodo = "wipo"
                 THEN "WIPO (Global Brand Database, IPO-BR)"
                 ELSE "INPI (site oficial)",
       tipo_busca |-> IF r.metodo = "wipo" THEN "similar-name" ELSE "exata",
       metodo |-> r.metodo,
       paginas_coletadas |-> r.paginasColetadas]

\* The handler from the final check to its answer.
ConcluirW(r) ==
  IF semResultado(r)
  THEN /\ Responder(502, [erro |-> "Falha ao consultar base de marcas"])
       /\ UNCHANGED CACHE
  ELSE GuardarEResponder(respostaDe_wipo(trim(pedido.marca.v), r))

\* The consultation log with the outcome d written to its last entry.
anotar(d) ==
  [consultas EXCEPT ![Len(consultas)] = [fonte |-> @.fonte, desfecho |-> d]]

\* A request arrives; the handler runs to its first await, inside tentarWipo.
ChegarW(method, marca) ==
  /\ pc = "ocioso"
  /\ pedido' = [method |-> method, marca |-> marca]
  /\ resultadoW' = NULO
  /\ IF method = "OPTIONS"
     THEN Responder(200, SEM_CORPO) /\ UNCHANGED CACHE /\ consultas' = <<>>
     ELSE IF method \notin {"POST", "GET"}
     THEN /\ Responder(405, [erro |-> "Metodo nao permitido"])
          /\ UNCHANGED CACHE
          /\ consultas' = <<>>
     ELSE IF marcaInvalida(marca)
     THEN /\ Responder(422, [erro |-> "Validacao falhou"])
          /\ UNCHANGED CACHE
          /\ consultas' = <<>>
     ELSE LET key == cacheKey(trim(marca.v))
          IN  IF cacheHit(key)
              THEN /\ Responder(200, CACHE[key].value)
                   /\ UNCHANGED CACHE
                   /\ consultas' = <<>>
              ELSE /\ CACHE' = cacheAposGet(key)
                   /\ pc' = "wipo"
                   /\ resposta' = SEM_RESPOSTA
                   /\ consultas' = <<[fonte |-> "wipo", desfecho |-> PENDENTE]>>
  /\ UNCHANGED <<PLAYWRIGHT_ENABLED, agora, varsDecisao, varsTexto, varsBroker,
                 varsConcorrente, varsRetry>>

\* What follows tentarWipo, with r the value of resultado: the fallback
\* starts and runs to its first await, or the handler concludes.
aposWipo(r) ==
  /\ resultadoW' = r
  /\ IF precisaFallback(r)
     THEN /\ pc' = "inpi"
          /\ consultas' = Append(anotar(IF r = NULO THEN LANCOU ELSE r),
                                 [fonte |-> "inpi", desfecho |-> PENDENTE])
          /\ UNCHANGED <<CACHE, resposta>>
     ELSE /\ consultas' = anotar(r)
          /\ ConcluirW(r)

\* tentarWipo resolved to r.
WipoRetorna(r) ==
  /\ pc = "wipo"
  /\ aposWipo(r)
  /\ UNCHANGED <<PLAYWRIGHT_ENABLED, agora, pedido, varsDecisao, varsTexto,
                 varsBroker, varsConcorrente, varsRetry>>

\* tentarWipo threw: the catch keeps resultado null.
WipoLanca ==
  /\ pc = "wipo"
  /\ aposWipo(NULO)
  /\ UNCHANGED <<PLAYWRIGHT_ENABLED, agora, pedido, varsDecisao, varsTexto,
                 varsBroker, varsConcorrente, varsRetry>>

\* tentarINPI resolved to r, a result or null: resultado = r.  It catches
\* every error of its own, so it never throws.
INPIRetorna(r) ==
  /\ pc = "inpi"
  /\ resultadoW' = r
  /\ consultas' = anotar(r)
  /\ ConcluirW(r)
  /\ UNCHANGED <<PLAYWRIGHT_ENABLED, agora, pedido, varsDecisao, varsTexto,
                 varsBroker, varsConcorrente, varsRetry>>

\* Time passes between two steps of the handler.
TickW ==
  /\ agora + TTL_MIN <= MaxTicks * TTL_MIN
  /\ agora' = agora + TTL_MIN
  /\ UNCHANGED <<PLAYWRIGHT_ENABLED, CACHE, pedido, pc, resposta,
                 varsDecisao, varsTexto, varsBroker, varsConcorrente, varsExtra>>

InitWipo == HandlerParado /\ WipoParado

InitW ==
  InitWipo /\ DecisaoParada /\ TextoParado /\ BrokerParado /\ ConcorrenteParado
    /\ RetryParado

NextW ==
  \/ \E p \in PedidosW : ChegarW(p.method, p.marca)
  \/ \E r \in ResultadosWipo : WipoRetorna(r)
  \/ WipoLanca
  \/ \E r \in ResultadosINPI \cup {NULO} : INPIRetorna(r)
  \/ TickW

SpecWipo == InitW /\ [][NextW]_vars

\* ================================================================== claims

\* y occurs in x as a run of consecutive characters (the empty string occurs
\* in every string).
Contem(x, y) ==
  \E i \in 1..(Len(x) + 1) : \E j \in (i - 1)..Len(x) : SubSeq(x, i, j) = y

\* Relevance under the loose-containment policy, as the specification words
\* it: the canonical forms are equal, or one contains the other.
RelevanteLoose(p, q) ==
  LET A == canonical(campo(p, "marca"))
      B == canonical(q)
  IN  A = B \/ Contem(A, B) \/ Contem(B, A)

\* A string lower-cased and without diacritics.
SemAcentosMinusculas(s) == toLowerCase(removeCombining(normalizeNFD(s)))

\* The nine terminal stems of the specification.
NoveRadicais ==
  { <<"i","n","d","e","f","e","r","i","d">>, <<"n","e","g","a","d">>, <<"a","r","q","u","i","v">>, <<"e","x","t","i","n","t">>, <<"c","a","d","u","c","a","d">>,
    <<"c","a","n","c","e","l","a","d">>, <<"n","u","l","i","d","a","d","e"," ","p","r","o","c","e","d","e","n","t">>, <<"n","u","l","o">>, <<"r","e","n","u","n","c","i">> }

\* A status is terminal: lower-cased and without diacritics it contains a stem.
Terminal(s) == \E r \in NoveRadicais : Contem(SemAcentosMinusculas(s), r)

\* The record p is relevant to the query in the variant that ran.
RelevanteNaVariante(p) ==
  IF variante = "loose"
  THEN RelevanteLoose(p, marcaDigitada)
  ELSE EhRelevanteExata(p, marcaDigitada)

\* The status of p that the variant that ran classifies.
SituacaoNaVariante(p) ==
  IF variante = "exata" THEN situacaoDe(p) ELSE campo(p, "situacao")

\* The reason "all matched records are terminal" of the variant that ran.
MotivoTerminaisNaVariante ==
  IF variante = "loose" THEN MOTIVO_TERMINAIS ELSE MOTIVO_TERMINAIS_exata

Relevantes ==
  {i \in 1..Len(processos.itens) : RelevanteNaVariante(processos.itens[i])}

Bloqueantes ==
  {i \in Relevantes : ~Terminal(SituacaoNaVariante(processos.itens[i]))}

\* C1: veto rule. In the loose (scraping) and the exact (paginated broker)
\* variant, whenever one record relevant to the query has a status that is not
\* terminal, the decision returns disponivel = false, however many other
\* relevant records are terminal and wherever the blocking record sits.
C1_Veto ==
  (variante \in {"loose", "exata"} /\ IsArray(processos) /\ Bloqueantes # {})
    => decisao.disponivel = FALSE

\* C1 witness: a terminal relevant record first, the blocking one after it,
\* and the verdict is "not available".
C1_Witness ==
  /\ variante = "loose"
  /\ canonical(marcaDigitada) # <<>>
  /\ IsArray(processos)
  /\ Len(processos.itens) = 2
  /\ Relevantes = {1, 2}
  /\ Bloqueantes = {2}
  /\ decisao.disponivel = FALSE

\* C2: when at least one record is relevant and every relevant record is
\* terminal, the decision returns disponivel = true with the reason "all
\* matched records are terminal", and no other reason.
C2_TodasTerminais ==
  (variante \in {"loose", "exata"} /\ IsArray(processos)
     /\ Relevantes # {} /\ Bloqueantes = {})
    => (decisao.disponivel = TRUE /\ decisao.motivo = MotivoTerminaisNaVariante)

\* C2 witness: one terminal relevant record beside a record in force that is
\* not relevant, and the verdict is "available, all terminal".
C2_Witness ==
  /\ variante = "loose"
  /\ IsArray(processos)
  /\ Len(processos.itens) = 2
  /\ Relevantes = {1}
  /\ Bloqueantes = {}
  /\ ~Terminal(campo(processos.itens[2], "situacao"))
  /\ decisao = [disponivel |-> TRUE, motivo |-> MOTIVO_TERMINAIS]

\* C3 (as claimed): for an empty record list, or a value that is no array at
\* all, every variant's decision returns disponivel = true with the reason "no
\* record found".  The single-page broker variant throws on a value that is
\* neither falsy nor an array.
C3_SemRegistros ==
  (variante # "nenhuma" /\ (~IsArray(processos) \/ Len(processos.itens) = 0))
    => /\ "disponivel" \in DOMAIN decisao
       /\ decisao.disponivel = TRUE
       /\ decisao.motivo = MOTIVO_NENHUM

\* C4: for a non-empty list in which no record's canonical name equals,
\* contains or is contained in the canonical query, the loose decision returns
\* disponivel = true with the reason "no matching record", whatever the
\* statuses.
C4_SemRelevantes ==
  (variante = "loose" /\ IsArray(processos) /\ Len(processos.itens) > 0
     /\ \A i \in 1..Len(processos.itens) :
          ~RelevanteLoose(processos.itens[i], marcaDigitada))
    => decisao = [disponivel |-> TRUE, motivo |-> MOTIVO_SEM_EXATO]

\* C4 witness: two records in force, neither relevant, and the verdict is
\* "available, no matching record".
C4_Witness ==
  /\ variante = "loose"
  /\ IsArray(processos)
  /\ Len(processos.itens) = 2
  /\ \A i \in 1..2 :
       /\ ~RelevanteLoose(processos.itens[i], marcaDigitada)
       /\ ~Terminal(campo(processos.itens[i], "situacao"))
  /\ decisao = [disponivel |-> TRUE, motivo |-> MOTIVO_SEM_EXATO]

\* C5: situacaoPermite(status) is true exactly when the status, lower-cased and
\* without diacritics, contains one of the nine stems; every other status,
\* the empty one, "Alto Renome" and "Registro de marca em vigor" among them, is
\* not terminal.
C5_NoveRadicais ==
  (entrada.tipo = "situacao" /\ saida # PENDENTE)
    => /\ saida.permite = Terminal(entrada.s)
       /\ saida.permite_exata = Terminal(entrada.s)
       /\ entrada.s \in {<<>>, <<"A","l","t","o"," ","R","e","n","o","m","e">>, <<"R","e","g","i","s","t","r","o"," ","d","e"," ","m","a","r","c","a"," ","e","m"," ","v","i","g","o","r">>}
            => ~saida.permite

\* C5 witness: a status whose stem is written in upper case with a diacritic
\* was classified terminal.
C5_Witness ==
  /\ entrada.tipo = "situacao"
  /\ saida # PENDENTE
  /\ entrada.s = <<"P","e","d","i","d","o"," ","R","E","N","U+00DA","N","C","I","a">>
  /\ saida.permite = TRUE

\* The rows of the last response's body that are relevant to the request's
\* query, and those among them whose status is not terminal.
RelevantesDaResposta ==
  {i \in 1..Len(resposta.body.processos) :
     RelevanteLoose(resposta.body.processos[i], trim(pedido.marca.v))}

BloqueantesDaResposta ==
  {i \in RelevantesDaResposta :
     ~Terminal(campo(resposta.body.processos[i], "situacao"))}

\* C6 (as claimed): every 200 response of the scraping handler that carries a
\* verdict, fresh or served from the cache, says disponivel = false only if a
\* record relevant to the query is in a non-terminal status, and disponivel =
\* true with a relevant record only if every relevant record is terminal.  The
\* response of the path "Cheerio failed, browser fallback switched off" says
\* disponivel = false over an empty record list.
C6_VereditoDaResposta ==
  (resposta.status = 200 /\ "disponivel" \in DOMAIN resposta.body)
    => /\ resposta.body.disponivel = FALSE => BloqueantesDaResposta # {}
       /\ (resposta.body.disponivel = TRUE /\ RelevantesDaResposta # {})
            => BloqueantesDaResposta = {}

\* C7 (as claimed): under the loose policy a record without a name, or whose
\* name canonicalizes to the empty string, is never relevant, and a query that
\* canonicalizes to the empty string is matched by no record; so a list of
\* such records, or any list under such a query, never yields disponivel =
\* false.
C7_VaziosNuncaCasam ==
  (variante = "loose" /\ IsArray(processos)
     /\ (\/ canonical(marcaDigitada) = <<>>
         \/ \A i \in 1..Len(processos.itens) :
              canonical(campo(processos.itens[i], "marca")) = <<>>))
    => decisao.disponivel = TRUE

\* An upstream answer from which the handler variant in use can read a record
\* list: the request succeeded, the body carries the code 200, and the list
\* sits where the variant looks for it.
RespostaLegivel(body) ==
  /\ "rejeitado" \notin DOMAIN body
  /\ "code" \in DOMAIN body
  /\ body.code = 200
  /\ "data" \in DOMAIN body
  /\ IF env.variante = "simples"
     THEN "processos" \in DOMAIN body.data /\ IsArray(body.data.processos)
     ELSE /\ body.data.tipo = "array"
          /\ \A i \in 1..Len(body.data.itens) :
               /\ "processos" \in DOMAIN body.data.itens[i]
               /\ IsArray(body.data.itens[i].processos)

\* C8 (as claimed): a broker handler that consulted the broker answers 200
\* with a verdict only when every upstream answer of the request succeeded,
\* carried the code 200 and held a readable record list; a failed or
\* unreadable answer ends in an error status.  Both broker handlers answer
\* 200 "available" on bodies without a readable list, and the single-page one
\* on a body whose code is not 200.
C8_FalhaNuncaViraVazio ==
  (pcB = "ocioso" /\ \E i \in 1..Len(paginas) : ~RespostaLegivel(paginas[i]))
    => respostaB.status \in {500, 502, 504}

\* C9: equalsLoose(name, query) is true exactly when the canonical forms are
\* equal or one is a substring of the other ("Sol" is relevant to
\* "Girassol"), and the loose decision takes exactly these records as
\* relevant: over one record in force it answers "no matching record" when
\* equalsLoose is false and "not available" when it is true.
C9_Loose ==
  (entrada.tipo = "nomes" /\ saida # PENDENTE)
    => LET A == canonical(entrada.a)
           B == canonical(entrada.b)
           rel == (A = B \/ Contem(A, B) \/ Contem(B, A))
       IN  /\ saida.loose = rel
           /\ (entrada.a = <<"G","i","r","a","s","s","o","l">> /\ entrada.b = <<"S","o","l">>) => saida.loose
           /\ saida.vigor_loose =
                IF rel
                THEN [disponivel |-> FALSE, motivo |-> MOTIVO_NAO_TERMINAIS]
                ELSE [disponivel |-> TRUE, motivo |-> MOTIVO_SEM_EXATO]

\* C9 witness: the record "Girassol" in force was found relevant to the query
\* "Sol" and blocks it.
C9_Witness ==
  /\ entrada = [tipo |-> "nomes", a |-> <<"G","i","r","a","s","s","o","l">>, b |-> <<"S","o","l">>]
  /\ saida # PENDENTE
  /\ saida.loose = TRUE
  /\ saida.vigor_loose.disponivel = FALSE

\* A query as a handler passes it on: trimmed and not empty.
ConsultaValida(q) == q # <<>> /\ trim(q) = q

FormaNormal(s) == trim(SemAcentosMinusculas(s))

C12_Idempotente ==
  (entrada.tipo = "grafia" /\ saida # PENDENTE)
    => /\ saida.denovo = saida.canonico
       /\ \A i \in 1..Len(saida.canonico) : saida.canonico[i] \in AlnumLower

\* C12 witness: a string with an upper-case letter, a diacritic and a space
\* was canonicalized, and canonicalizing the result again left it as it was.
C12_Witness ==
  /\ entrada.tipo = "grafia"
  /\ entrada.s = <<"T","U+00FA","n","e","l"," ","C","r","e","w">>
  /\ saida # PENDENTE
  /\ saida.canonico = <<"t","u","n","e","l","c","r","e","w">>
  /\ saida.denovo = <<"t","u","n","e","l","c","r","e","w">>

\* C13: two strings that differ only in letter case, in combining
\* diacritics or in characters outside a-z and 0-9 have the same canonical
\* form; "Tunel Crew" with an acute on the u, "TUNEL CREW" and "tunel-crew" all canonicalize to
\* "tunelcrew".
C13_IgnoraGrafia ==
  (entrada.tipo = "grafia" /\ saida # PENDENTE)
    => /\ saida.outro = saida.canonico
       /\ entrada.s \in Grafias => saida.canonico = <<"t","u","n","e","l","c","r","e","w">>

\* C13 witness: a respelling that changed the string and not its canonical
\* form.
C13_Witness ==
  /\ entrada.tipo = "grafia"
  /\ entrada.op = "agudo"
  /\ saida # PENDENTE
  /\ saida.respelled # entrada.s
  /\ canonical(entrada.s) # <<>>
  /\ saida.outro = saida.canonico

\* Relevance under the exact-match policy: the normal forms are equal.
RelevanteExata(p, q) == FormaNormal(campo(p, "marca")) = FormaNormal(q)

\* Every record of the list that is relevant (loosely when solta, else
\* exactly) to the query q is terminal.
RelevantesTodosTerminais(solta, lista, q) ==
  \A i \in 1..Len(lista) :
    (IF solta THEN RelevanteLoose(lista[i], q) ELSE RelevanteExata(lista[i], q))
      => Terminal(campo(lista[i], "situacao"))

\* The record put in is relevant and not terminal.
AcrescimoBloqueia(solta) ==
  /\ IF solta THEN RelevanteLoose(entrada.r, entrada.q)
     ELSE RelevanteExata(entrada.r, entrada.q)
  /\ ~Terminal(campo(entrada.r, "situacao"))

\* C11: monotonicity.  Putting one relevant non-terminal record, at any
\* position, into a list whose relevant records are all terminal turns
\* disponivel from true to false; putting any record into a list that yields
\* disponivel = false leaves it false.  Both for the loose decision and for
\* the exact one of the GET broker variant.
C11_Monotonia ==
  (entrada.tipo = "acrescimo" /\ saida # PENDENTE)
    => /\ (RelevantesTodosTerminais(TRUE, entrada.lista, entrada.q)
             /\ AcrescimoBloqueia(TRUE))
            => (saida.loose_antes.disponivel /\ ~saida.loose_depois.disponivel)
       /\ (RelevantesTodosTerminais(FALSE, entrada.lista, entrada.q)
             /\ AcrescimoBloqueia(FALSE))
            => (saida.get_antes.disponivel /\ ~saida.get_depois.disponivel)
       /\ ~saida.loose_antes.disponivel => ~saida.loose_depois.disponivel
       /\ ~saida.get_antes.disponivel => ~saida.get_depois.disponivel

\* C11 witness: a terminal record was put in front of a list of one record in
\* force and one archived, both matching exactly, and the verdict stayed
\* "not available".
C11_Witness ==
  /\ entrada.tipo = "acrescimo"
  /\ saida # PENDENTE
  /\ Len(entrada.lista) = 2
  /\ entrada.k = 0
  /\ RelevanteExata(entrada.r, entrada.q)
  /\ Terminal(entrada.r.situacao)
  /\ \A i \in 1..2 : RelevanteExata(entrada.lista[i], entrada.q)
  /\ Terminal(entrada.lista[1].situacao)
  /\ ~Terminal(entrada.lista[2].situacao)
  /\ ~saida.get_antes.disponivel
  /\ ~saida.get_depois.disponivel

\* C14 (as claimed): a record whose name or status is missing, null or no
\* string, or which is null itself, does not crash the decision, and the
\* verdict over a list with such records equals the verdict over the list
\* without them.  A name that is a number makes the decision throw, and a
\* record without a name is relevant to every query under the loose policy.
C14_MalformadosIgnorados ==
  (entrada.tipo = "tipada" /\ saida # PENDENTE)
    => /\ "disponivel" \in DOMAIN saida.loose_com
       /\ "disponivel" \in DOMAIN saida.exata_com
       /\ saida.loose_com.disponivel = saida.loose_sem.disponivel
       /\ saida.exata_com.disponivel = saida.exata_sem.disponivel

\* The request being served carries a usable query: a string that is not
\* empty after trimming.
Branca(s) == \A i \in 1..Len(s) : s[i] \in WhiteSpace

ConsultaUtil(marca) == marca.tipo = "string" /\ ~Branca(marca.v)

\* t is s without its leading and trailing white space.
Aparada(s, t) ==
  \E i \in 1..(Len(s) + 1) : \E j \in (i - 1)..Len(s) :
    /\ t = SubSeq(s, i, j)
    /\ Branca(SubSeq(s, 1, i - 1))
    /\ Branca(SubSeq(s, j + 1, Len(s)))
    /\ t # <<>> => (t[1] \notin WhiteSpace /\ t[Len(t)] \notin WhiteSpace)

\* C15 (as claimed): the broker handlers answer an upstream rejection or
\* unavailability with 502, an upstream timeout with 504 and a missing token
\* with a configuration error, and none of these with the generic "Erro
\* interno".  The GET handler answers a rejection and a missing token with
\* the generic 500, and the paginated POST handler a connection reset.
C15_CategoriasDistintas ==
  /\ (pcB = "ocioso" /\ paginas # <<>>
        /\ "rejeitado" \in DOMAIN paginas[Len(paginas)])
       => /\ respostaB.status =
               (IF paginas[Len(paginas)].rejeitado \in {"ECONNABORTED", "ETIMEDOUT"}
                THEN 504 ELSE 502)
          /\ respostaB.body.erro # "Erro interno"
  /\ (pcB = "ocioso" /\ env.variante \in {"paginada", "get"}
        /\ ~env.mock /\ ~env.token
        /\ pedidoB.method = "POST" /\ ConsultaUtil(pedidoB.marca))
       => /\ respostaB.status = 500
          /\ respostaB.body.erro = "Configuracao"

\* C16 (as claimed): a request whose marca is absent, no string or empty
\* after trimming is answered with a validation error before anything is
\* sent upstream or decided, and the query an accepted request hands
\* downstream is the trimmed string.  The GET handler accepts a query of
\* white space and hands the query on untrimmed.
C16_Validacao ==
  pedidoB.method = "POST"
    => IF ConsultaUtil(pedidoB.marca)
       THEN /\ termo # NENHUM => Aparada(pedidoB.marca.v, termo)
            /\ decidido # NENHUM => Aparada(pedidoB.marca.v, decidido.marca)
       ELSE /\ pcB = "ocioso"
            /\ respostaB.status \in {400, 422}
            /\ termo = NENHUM
            /\ decidido = NENHUM
            /\ paginas = <<>>

\* The number of pages the first body announces, in its block or at its top.
PaginasAnunciadas(body) ==
  IF /\ "data" \in DOMAIN body
     /\ body.data.tipo = "array"
     /\ body.data.itens # <<>>
     /\ "total_paginas" \in DOMAIN body.data.itens[1]
  THEN body.data.itens[1].total_paginas
  ELSE IF "total_paginas" \in DOMAIN body THEN body.total_paginas
  ELSE 1

\* The records of the blocks of the bodies 1..n, in order.
RECURSIVE RegistrosAte(_, _)
RegistrosAte(pags, n) ==
  IF n = 0 THEN <<>>
  ELSE RegistrosAte(pags, n - 1) \o
         (IF "data" \in DOMAIN pags[n] /\ pags[n].data.tipo = "array"
          THEN flatMapProcessos(pags[n].data.itens) ELSE <<>>)

\* C17 (as claimed): when the upstream announces N pages, the paginated
\* handlers decide over the records of the pages 1..N concatenated in page
\* order, never over page 1 alone when N > 1.  The GET handler reads the
\* total at the top of the body only and decides after page 1 when the total
\* sits in the block.
C17_PaginacaoCompleta ==
  (pcB = "ocioso" /\ env.variante \in {"paginada", "get"} /\ ~env.mock
     /\ respostaB.status = 200 /\ decidido # NENHUM /\ paginas # <<>>)
    => /\ Len(paginas) = PaginasAnunciadas(paginas[1])
       /\ decidido.processos.itens = RegistrosAte(paginas, Len(paginas))

\* The records stored in the mock data under the normal form of the query.
RegistrosDoMock(q) ==
  IF MOCK_DATA(FormaNormal(q)) = SEM_MOCK THEN <<>>
  ELSE flatMapProcessos(MOCK_DATA(FormaNormal(q)).data.itens)

\* C19: in mock mode a request with a usable query is answered 200 with
\* disponivel equal to the decision over the mock records stored under the
\* normalized query: false for NATURA and COCA-COLA, whose records carry the
\* exact name with statuses that are not terminal, true for
\* XYZMINHAMARCA2025, whose list is empty.
C19_Mock ==
  (pcB = "ocioso" /\ env.mock /\ pedidoB.method = "POST"
     /\ ConsultaUtil(pedidoB.marca))
    => LET q == pedidoB.marca.v
           regs == RegistrosDoMock(q)
       IN  /\ respostaB.status = 200
           /\ respostaB.body.disponivel =
                (\A i \in 1..Len(regs) :
                   RelevanteExata(regs[i], q) => Terminal(regs[i].situacao))
           /\ q \in {<<"N","A","T","U","R","A">>, <<"C","O","C","A","-","C","O","L","A">>} => ~respostaB.body.disponivel
           /\ q = <<"X","Y","Z","M","I","N","H","A","M","A","R","C","A","2","0","2","5">> => respostaB.body.disponivel

\* C19 witness: the mock test of NATURA answered 200 "not available" over its
\* two records.
C19_Witness ==
  /\ pcB = "ocioso"
  /\ env.mock
  /\ pedidoB.method = "POST"
  /\ pedidoB.marca = Cadeia(<<"N","A","T","U","R","A">>)
  /\ respostaB.status = 200
  /\ respostaB.body.disponivel = FALSE
  /\ Len(respostaB.body.processos) = 2

\* C18 (as claimed): every 200 answer that carries a marca carries the
\* trimmed query of the request that receives it.  An answer served from the
\* cache carries the query of the earlier request that stored it, which is
\* another spelling of the same canonical name.
C18_MarcaDoPedido ==
  (pc = "ocioso" /\ pedido # SEM_PEDIDO /\ resposta.status = 200
     /\ resposta.body # SEM_CORPO /\ "marca" \in DOMAIN resposta.body)
    => Aparada(pedido.marca.v, resposta.body.marca)

\* Invocation i has answered with a decision taken in this invocation.
Decidiu(i) ==
  /\ invocacoes[i].pc = "fim"
  /\ invocacoes[i].fresco
  /\ invocacoes[i].resultado # SEM_CORPO

\* The verdict of every invocation that decided is the verdict of the
\* decision over its own trimmed query and its own records, whatever the
\* cache holds and whatever the other invocation is doing.
VereditoProprio ==
  \A i \in Invocacoes :
    Decidiu(i) =>
      invocacoes[i].resposta.body.disponivel =
        RelevantesTodosTerminais(TRUE, invocacoes[i].resultado.processos,
                                 trim(invocacoes[i].marca.v))

\* The step of invocation i that holds the decision changes nothing of the
\* other invocation, keeps its own query, and changes the cache under its own
\* key only (the handler's cacheSet).
PassoDaDecisao ==
  \A i \in Invocacoes :
    (invocacoes[i].pc = "cheerio" /\ invocacoes'[i].pc = "fim")
      => /\ \A j \in Invocacoes \ {i} : invocacoes'[j] = invocacoes[j]
         /\ invocacoes'[i].marca = invocacoes[i].marca
         /\ DOMAIN CACHE' = DOMAIN CACHE \cup {cacheKey(trim(invocacoes[i].marca.v))}
         /\ \A k \in DOMAIN CACHE :
              k # cacheKey(trim(invocacoes[i].marca.v)) => CACHE'[k] = CACHE[k]
         /\ UNCHANGED <<PLAYWRIGHT_ENABLED, agora>>

\* C20: the decision is safe under concurrent use.  In every interleaving of
\* two invocations of the handler, each decision returns the verdict it
\* returns alone on its own query and records, and the step that takes it
\* leaves the other invocation, the query and the rest of the cache as they
\* were.
C20_Isolada == [](VereditoProprio) /\ [][PassoDaDecisao]_vars

\* C20 witness: invocation 2 arrived, decided "not available" and answered
\* while invocation 1, with another query, is still waiting for its page.
C20_Witness ==
  /\ invocacoes[1].pc = "cheerio"
  /\ Decidiu(2)
  /\ invocacoes[2].marca # invocacoes[1].marca
  /\ invocacoes[2].resposta.body.disponivel = FALSE
  /\ cacheKey(trim(invocacoes[2].marca.v)) \in DOMAIN CACHE

\* The records of the list that are relevant under exact match, in input
\* order.
RelevantesEmOrdem ==
  LET Test(p) == RelevanteExata(p, marcaDigitada)
  IN  SelectSeq(processos.itens, Test)

\* The status of p that the exact-match variant that ran classifies.
StatusClassificado(p) ==
  IF variante \in {"exata", "get"} THEN situacaoDe(p) ELSE campo(p, "situacao")

\* The entry e of the evidence list is the projection of the record p.
ProjecaoDe(e, p) ==
  /\ campo(e, "situacao") = StatusClassificado(p)
  /\ campo(e, "titular") = campo(p, "titular")
  /\ campo(e, "numero") =
       (IF variante = "simples" \/ campo(p, "numero") # <<>>
        THEN campo(p, "numero") ELSE campo(p, "processo"))
  /\ campo(e, "classe") =
       (IF variante = "simples" \/ campo(p, "classe") # <<>>
        THEN campo(p, "classe") ELSE campo(p, "classe_nice"))
  /\ DOMAIN e \subseteq {"numero", "situacao", "titular", "classe"}

\* C21: in the exact-match variants the evidence list of a verdict is the
\* relevant records in input order, each projected to number, status, holder
\* and class with the status that was classified; so a "not available"
\* verdict lists a record whose listed status is not terminal, and the list
\* is empty when no record is relevant.
C21_Evidencia ==
  (variante \in {"exata", "get", "simples"} /\ IsArray(processos))
    => /\ Len(decisao.processos) = Len(RelevantesEmOrdem)
       /\ \A k \in 1..Len(RelevantesEmOrdem) :
            ProjecaoDe(decisao.processos[k], RelevantesEmOrdem[k])
       /\ ~decisao.disponivel =>
            \E k \in 1..Len(decisao.processos) :
              ~Terminal(campo(decisao.processos[k], "situacao"))

\* C21 witness: the paginated variant listed two relevant records, the first
\* with its status, number and class taken from the fallback fields, after
\* skipping none, and said "not available".
C21_Witness ==
  /\ variante = "exata"
  /\ IsArray(processos)
  /\ Len(processos.itens) = 2
  /\ "processo" \in DOMAIN processos.itens[1]
  /\ Len(decisao.processos) = 2
  /\ decisao.processos[1].situacao = <<"A","r","q","u","i","v","a","d","o">>
  /\ decisao.processos[1].numero = <<"7">>
  /\ decisao.processos[1].classe = <<"3","5">>
  /\ decisao.disponivel = FALSE

\* The error an attempt that settled to d leaves behind.
ErroDe(d) ==
  IF "rejeitado" \in DOMAIN d THEN [mensagem |-> d.rejeitado]
  ELSE IF d.status \in {429, 500, 502, 503, 504}
  THEN [mensagem |-> "HTTP", status |-> d.status]
  ELSE [mensagem |-> "Status nao esperado", status |-> d.status]

\* The answer d has a 2xx status and a string body.
Aproveitavel(d) ==
  "status" \in DOMAIN d /\ d.status \in 200..299 /\ d.cadeia

\* C22: bounded retry.  One call of httpGetWithRetry sends at most maxAttempts
\* requests; it returns the HTML of the first attempt answered with a 2xx
\* status and a string body, and no request is sent after such an answer; if
\* no attempt succeeds it throws the error of the last attempt; it never
\* returns a body that is no string or came with another status.
C22_RetryLimitado ==
  /\ enviados <= maxAttempts
  /\ pcR \in {"axios", "backoff"} => (ultimo = NADA \/ ~Aproveitavel(ultimo))
  /\ pcR = "retornou"
       => /\ Aproveitavel(ultimo)
          /\ retorno = [html |-> enviados]
  /\ pcR = "lancou"
       => /\ "lancou" \in DOMAIN retorno
          /\ enviados > 0 => (~Aproveitavel(ultimo) /\ retorno.lancou = ErroDe(ultimo))

\* C22 witness: two attempts failed, the third was answered 200 with a string
\* body, and the call returned that HTML after three requests.
C22_Witness ==
  /\ pcR = "retornou"
  /\ maxAttempts = 3
  /\ enviados = 3
  /\ esperas = 2
  /\ retorno = [html |-> 3]

\* C23 (as claimed): httpGetWithRetry waits and sends a further request only
\* after an answer with status 429, 500, 502, 503 or 504 or after a request
\* error; any other status that is not 2xx ends the call at once.  The throw
\* of "Status nao esperado" sits inside the try block, so the catch block
\* takes it, waits and lets the loop go on.
C23_SoRetentaveis ==
  (pcR = "backoff" \/ (pcR = "axios" /\ enviados > 1))
    => \/ "rejeitado" \in DOMAIN ultimo
       \/ ultimo.status \in {429, 500, 502, 503, 504}
       \/ ultimo.status \in 200..299

\* Every entry expires between 10 and 30 minutes after the moment it was
\* written, and exactly 15 minutes after it in the cookie-session variant.
PrazoDasEntradas ==
  \A k \in DOMAIN CACHE :
    LET prazo == CACHE[k].expiresAt - CACHE[k].value.escrito
    IN  /\ prazo \in 10..30
        /\ entrada.variante = "sessao" => prazo = 15

\* A step that is a cacheGet: it answers with the entry's value only while
\* the clock is not later than expiresAt and then leaves the cache as it is;
\* it answers null for an expired entry and removes that entry alone.
PassoDeLeitura ==
  (saida' # saida /\ saida'.op = "get")
    => LET k == saida'.key
       IN  /\ saida'.valor # NULO_CACHE
                => /\ k \in DOMAIN CACHE
                   /\ agora <= CACHE[k].expiresAt
                   /\ saida'.valor = CACHE[k].value
                   /\ CACHE' = CACHE
           /\ (k \in DOMAIN CACHE /\ agora > CACHE[k].expiresAt)
                => /\ saida'.valor = NULO_CACHE
                   /\ DOMAIN CACHE' = DOMAIN CACHE \ {k}
           /\ (k \in DOMAIN CACHE /\ agora <= CACHE[k].expiresAt)
                => saida'.valor = CACHE[k].value
           /\ \A j \in DOMAIN CACHE \ {k} :
                j \in DOMAIN CACHE' /\ CACHE'[j] = CACHE[j]

\* C24: micro-cache expiry.  cacheGet returns a value only while the current
\* time is not later than the entry's expiresAt; an entry read after that is
\* removed and reported as a miss; every entry's expiresAt lies 10 to 30
\* minutes after its writing (15 in the cookie-session variant), and a hit
\* does not extend it.
C24_Expiracao == [](PrazoDasEntradas) /\ [][PassoDeLeitura]_vars

\* C24 witness: an entry written at minute 0 with the least time to live was
\* read at minute 15, reported as a miss and removed, while the other key's
\* entry stayed.
C24_Witness ==
  /\ entrada.variante = "principal"
  /\ saida = [op |-> "get", key |-> <<"m","a","r","c","a",":","s","o","l">>, em |-> 15, valor |-> NULO_CACHE]
  /\ DOMAIN CACHE = {<<"m","a","r","c","a",":","l","u","a">>}
  /\ CACHE[<<"m","a","r","c","a",":","l","u","a">>].value.escrito = 0

\* C25 (as claimed): the status classifier of the WIPO-first variant agrees
\* with the nine-stem classifier on every status; a status with none of the
\* nine stems is not terminal there either.  That variant's stem list holds
\* six English stems more, and "expired", "withdrawn", "abandoned" and every
\* word with "dead" in it are terminal there.
C25_MesmaClassificacao ==
  (entrada.tipo = "situacao" /\ saida # PENDENTE)
    => saida.permite_wipo = Terminal(entrada.s)

\* The upstream call for a page failed: it was rejected, or its body carries
\* a code that is not 200.
PaginaFalhou(p) ==
  \/ "rejeitado" \in DOMAIN p
  \/ ("code" \in DOMAIN p /\ p.code # 200)

C27_LimiteDaPrimeira ==
  (env.variante \in {"paginada", "get"} /\ paginas # <<>>
     /\ ~PaginaFalhou(paginas[1]))
    => Len(paginas) <= PaginasAnunciadas(paginas[1])

\* The step writes the body it sends with status 200 under one key and
\* leaves the other entries as they are.
EscritaAntesDe200 ==
  /\ pc' = "ocioso"
  /\ resposta'.status = 200
  /\ \E k \in DOMAIN CACHE' :
       /\ CACHE'[k].value = resposta'.body
       /\ DOMAIN CACHE' = DOMAIN CACHE \cup {k}
       /\ \A j \in DOMAIN CACHE \ {k} : CACHE'[j] = CACHE[j]

\* The step is the lookup of an arriving request that found its entry
\* expired and removed it.
RemocaoDeExpirada ==
  /\ pc = "ocioso"
  /\ pc' = "cheerio"
  /\ \E k \in DOMAIN CACHE :
       /\ k = cacheKey(trim(pedido'.marca.v))
       /\ agora > CACHE[k].expiresAt
       /\ DOMAIN CACHE' = DOMAIN CACHE \ {k}
       /\ \A j \in DOMAIN CACHE' : CACHE'[j] = CACHE[j]

\* After an error answer the cache holds nothing under the request's key.
SemEntradaAposErro ==
  (pc = "ocioso" /\ pedido # SEM_PEDIDO /\ resposta.status \in {500, 502, 504})
    => cacheKey(trim(pedido.marca.v)) \notin DOMAIN CACHE

\* C28 (as claimed): the cache changes only in the step that sends a 200
\* answer, so a request that ends with an error leaves it as it was.  The
\* lookup of an arriving request deletes an expired entry before any answer
\* is sent.
C28_SoMudaAntesDe200 ==
  [][CACHE' # CACHE => (pc' = "ocioso" /\ resposta'.status = 200)]_vars

\* C28 (amended): error answers are never cached.  The cache is written only
\* in the step that sends a 200 answer, with the body sent; the only other
\* change is the removal of an expired entry by the lookup of a request for
\* its key; a step that answers 405, 422, 500, 502 or 504 leaves the cache
\* as it is, and after 500, 502 or 504 there is no entry under the request's
\* key, so the next request for that name goes upstream again.
C28_ErrosNaoGuardados ==
  /\ [](SemEntradaAposErro)
  /\ [][CACHE' # CACHE => (EscritaAntesDe200 \/ RemocaoDeExpirada)]_vars
  /\ [][(resposta' # resposta /\ resposta'.status \in {405, 422, 500, 502, 504})
          => CACHE' = CACHE]_vars

\* C28 witness: a request answered 502 after its lookup removed nothing, with
\* another name's entry still in the cache.
C28_Witness ==
  /\ pc = "ocioso"
  /\ pedido # SEM_PEDIDO
  /\ resposta.status = 502
  /\ DOMAIN CACHE = {<<"m","a","r","c","a",":","s","o","l">>}
  /\ cacheKey(trim(pedido.marca.v)) = <<"m","a","r","c","a",":","l","u","a">>

\* C29 (as claimed): the verdict served from the cache under the key of the
\* canonical query is the verdict the loose decision computes for the
\* requesting query on the cached records, whichever spelling filled the
\* cache.  The answer cached when Cheerio failed and the browser fallback is
\* off says "not available" over an empty record list, for which the
\* decision says "available".
C29_VereditoDoCache ==
  [][(pc = "ocioso" /\ pc' = "ocioso" /\ resposta'.status = 200
        /\ resposta'.body # SEM_CORPO)
     => LET d == decidirDisponibilidade(trim(pedido'.marca.v),
                                        Arr(resposta'.body.processos))
        IN  /\ resposta'.body.disponivel = d.disponivel
            /\ resposta'.body.motivo = d.motivo]_vars

\* The outcome d of a source gave no record to decide over: it threw, or it
\* carries no array, or an empty one.
SemRegistros(d) ==
  \/ d = LANCOU
  \/ ~IsArray(d.processos)
  \/ Len(d.processos.itens) = 0

\* The request last served was answered from what a source returned.
RespondeuAposConsulta == pc = "ocioso" /\ Len(consultas) >= 1

\* C30: in the WIPO-first variant WIPO is the first source queried and INPI
\* the only other one; once WIPO has settled, INPI was queried if and only if
\* WIPO threw, returned no record array or returned zero records; and the
\* answer is built from the last source queried alone: 502 when INPI was
\* queried and yielded no result, otherwise 200 with the verdict over that
\* source's records.
C30_OrdemDasFontes ==
  /\ Len(consultas) <= 2
  /\ Len(consultas) >= 1 => consultas[1].fonte = "wipo"
  /\ Len(consultas) = 2 => consultas[2].fonte = "inpi"
  /\ (Len(consultas) >= 1 /\ consultas[1].desfecho # PENDENTE)
       => (Len(consultas) = 2 <=> SemRegistros(consultas[1].desfecho))
  /\ RespondeuAposConsulta
       => LET u == consultas[Len(consultas)].desfecho
          IN  IF Len(consultas) = 2 /\ u = NULO
              THEN resposta.status = 502
              ELSE LET d == decidirDisponibilidade_wipo(trim(pedido.marca.v),
                                                        u.processos)
                   IN  /\ resposta.status = 200
                       /\ resposta.body.metodo = consultas[Len(consultas)].fonte
                       /\ resposta.body.processos = u.processos.itens
                       /\ resposta.body.disponivel = d.disponivel
                       /\ resposta.body.motivo = d.motivo

\* WIPO answered with an empty list, INPI yielded no result, and the request
\* was answered 502.
C30_Witness ==
  /\ RespondeuAposConsulta
  /\ Len(consultas) = 2
  /\ consultas[1].desfecho \in ResultadosWipo
  /\ consultas[2].desfecho = NULO
  /\ resposta.status = 502

====
